---- MODULE Spec2Model ----
(***************************************************************************)
(* screen-tutor: the provider fallback chain (chain construction, the      *)
(* sequential walk of callWithFallback) and the invocation client          *)
(* (callProvider with its request construction, deadline timer, HTTP       *)
(* status classification, response normalization and catch handler), and   *)
(* the health prober (checkProviderHealth, checkLocalProviderRunning).      *)
(*                                                                         *)
(* providers/fallback.ts is not among the sources; callWithFallback and    *)
(* buildProviderChain are modelled from the specification's section 4.3.   *)
(***************************************************************************)
EXTENDS Integers, Sequences, FiniteSets, TLC

VARIABLES
    providers,           \* the configured instance list (store state / caller's list)
    primaryProviderId,   \* the preferred primary identifier, or NoPrimary
    chain,               \* the chain handed to callWithFallback
    options,             \* the options of the fallback call
    fbPc,                \* "config" | "ready" | "walking" | "done"
    idx,                 \* position of the walk in the chain
    attemptedProviders,  \* identifiers attempted so far
    errors,              \* ProviderErrors collected so far
    calls,               \* one callProvider invocation per chain position
    outcome,             \* the FallbackOutcome once fbPc = "done"
    messages,            \* the messages handed to callProvider
    request,             \* the request callProvider hands to fetch
    probePc,             \* position of checkProviderHealth
    localCall,           \* the fetch of checkLocalProviderRunning
    health,              \* the ProviderHealth a probe returned
    fallbackOrder,       \* the store's fallback order (provider identifiers)
    healthStatus,        \* the store's health map
    validation,          \* what validateApiKey returned
    probes,              \* the probes of one checkAllProvidersHealth call
    healthMap,           \* the map checkAllProvidersHealth resolved to
    testStates,          \* Settings: the test state shown per provider
    closures,            \* Settings: what a running handleTestConnection captured
    isCapturing,         \* CaptureManager.isCapturing
    isBusy,              \* CaptureManager.isBusy
    timeoutId,           \* CaptureManager.timeoutId
    timers,              \* the setTimeout timers of the CaptureManager: delay left, per handle
    intervalMs,          \* CaptureManager.intervalMs
    inFlight,            \* captureScreen calls that have not settled
    lastScreenshot,      \* CaptureManager.lastScreenshot
    sinceFinished,       \* time since a capture last finished, up to the longest interval
    screenshotRef,       \* the panel's screenshotRef.current
    panelError,          \* the panel's error state
    isAnalyzingRef,      \* the panel's isAnalyzingRef.current
    lastAnalyzeTimeRef,  \* the panel's lastAnalyzeTimeRef.current
    now,                 \* Date.now()
    autoAnalyze,         \* the panel's autoAnalyze state
    analyses             \* callWithFallback calls of the panel that have not settled

vars == <<providers, primaryProviderId, chain, options, fbPc, idx,
          attemptedProviders, errors, calls, outcome,
          messages, request, probePc, localCall, health,
          fallbackOrder, healthStatus, validation, probes, healthMap,
          testStates, closures,
          isCapturing, isBusy, timeoutId, timers, intervalMs, inFlight,
          lastScreenshot, sinceFinished, screenshotRef, panelError,
          isAnalyzingRef, lastAnalyzeTimeRef, now, autoAnalyze, analyses>>

(***************************************************************************)
(* Bounds                                                                  *)
(***************************************************************************)
\* how many catalog entries the model configures instances for
NumProviders == 3

(***************************************************************************)
(* Provider catalog (registry.ts)                                          *)
(***************************************************************************)
PROVIDER_CONFIGS ==
    << [id |-> "anthropic",        tier |-> "paid",  requiresApiKey |-> TRUE,  supportsVision |-> TRUE ],
       [id |-> "openai",           tier |-> "paid",  requiresApiKey |-> TRUE,  supportsVision |-> TRUE ],
       [id |-> "google",           tier |-> "paid",  requiresApiKey |-> TRUE,  supportsVision |-> TRUE ],
       [id |-> "deepseek",         tier |-> "paid",  requiresApiKey |-> TRUE,  supportsVision |-> FALSE],
       [id |-> "mistral",          tier |-> "paid",  requiresApiKey |-> TRUE,  supportsVision |-> FALSE],
       [id |-> "groq",             tier |-> "free",  requiresApiKey |-> TRUE,  supportsVision |-> FALSE],
       [id |-> "openrouter",       tier |-> "free",  requiresApiKey |-> TRUE,  supportsVision |-> FALSE],
       [id |-> "google-ai-studio", tier |-> "free",  requiresApiKey |-> TRUE,  supportsVision |-> TRUE ],
       [id |-> "ollama",           tier |-> "local", requiresApiKey |-> FALSE, supportsVision |-> FALSE],
       [id |-> "lmstudio",         tier |-> "local", requiresApiKey |-> FALSE, supportsVision |-> FALSE] >>

CatalogIds == {PROVIDER_CONFIGS[k].id : k \in DOMAIN PROVIDER_CONFIGS}

\* position of an identifier in PROVIDER_CONFIGS
CatalogIndex(id) == CHOOSE k \in DOMAIN PROVIDER_CONFIGS : PROVIDER_CONFIGS[k].id = id

\* the catalog entries the model configures, taken so that the first three
\* cover the divergent family and the paid, free and local tiers
ModelledOrder == <<1, 6, 9, 2, 8, 10, 3, 7, 4, 5>>

Min(a, b) == IF a < b THEN a ELSE b

ModelledIds ==
    {PROVIDER_CONFIGS[ModelledOrder[k]].id :
        k \in 1..Min(NumProviders, Len(ModelledOrder))}

NoPrimary == "<none>"

\* an LLMProvider instance, reduced to the fields the chain logic reads
Instances == [id : ModelledIds, enabled : BOOLEAN]

DistinctIds(s) == \A i, j \in DOMAIN s : i # j => s[i].id # s[j].id

\* every list of instances with pairwise distinct identifiers
InstanceLists ==
    {s \in UNION {[1..n -> Instances] : n \in 0..Cardinality(ModelledIds)} :
        DistinctIds(s)}

\* initializeProviders maps PROVIDER_CONFIGS, and every store action maps the
\* list in place: the store's providers stay in catalog order
CatalogOrdered(s) ==
    \A i, j \in DOMAIN s : i < j => CatalogIndex(s[i].id) < CatalogIndex(s[j].id)

StoreLists == {s \in InstanceLists : CatalogOrdered(s)}

(***************************************************************************)
(* Chain construction (specification 4.3, "Chain construction")            *)
(***************************************************************************)
IsEnabled(p) == p.enabled

enabledProviders(list) == SelectSeq(list, IsEnabled)

HasEnabled(list, id) ==
    \E i \in DOMAIN list : list[i].id = id /\ list[i].enabled

primaryOf(list, id) ==
    list[CHOOSE i \in DOMAIN list : list[i].id = id /\ list[i].enabled]

\* the enabled instances of list other than id, in their existing order
RECURSIVE othersOf(_, _)
othersOf(list, id) ==
    IF list = <<>> THEN <<>>
    ELSE IF Head(list).enabled /\ Head(list).id # id
         THEN <<Head(list)>> \o othersOf(Tail(list), id)
         ELSE othersOf(Tail(list), id)

\* faulty variant: the primary is put first but not taken out of the rest
buildProviderChainKeepsPrimary(list, primaryId) ==
    IF primaryId # NoPrimary /\ HasEnabled(list, primaryId)
    THEN <<primaryOf(list, primaryId)>> \o enabledProviders(list)
    ELSE enabledProviders(list)

buildProviderChain(list, primaryId) ==
    IF primaryId # NoPrimary /\ HasEnabled(list, primaryId)
    THEN <<primaryOf(list, primaryId)>> \o othersOf(list, primaryId)
    ELSE enabledProviders(list)

(***************************************************************************)
(* Invocation client (client.ts)                                           *)
(***************************************************************************)
DEFAULT_TIMEOUT_MS == 30000

isAnthropicProvider(provider) == provider.id = "anthropic"

DEFAULT_MAX_TOKENS == 2048

\* header maps are functions from header names to values
NoHeaders == [k \in {} |-> ""]

\* the extra headers a ProviderDefinition declares (registry.ts)
ConfigHeaders(id) ==
    IF id = "anthropic" THEN ("anthropic-version" :> "2023-06-01")
    ELSE IF id = "openrouter"
    THEN ("HTTP-Referer" :> "https://screentutor.app" @@ "X-Title" :> "ScreenTutor")
    ELSE NoHeaders

\* the version header an instance carries when it was configured for a
\* different API version than the registry's
OverrideHeaders == ("anthropic-version" :> "2024-10-22")

\* Object.assign(target, source): the source's keys win
ObjectAssign(target, source) ==
    [k \in DOMAIN target \cup DOMAIN source |->
        IF k \in DOMAIN source THEN source[k] ELSE target[k]]

buildHeaders(provider) ==
    LET base == ("Content-Type" :> "application/json")
        withAuth ==
            IF provider.apiKey # ""
            THEN IF isAnthropicProvider(provider)
                 THEN ObjectAssign(base, ("x-api-key" :> provider.apiKey))
                 ELSE ObjectAssign(base, ("Authorization" :> ("Bearer " \o provider.apiKey)))
            ELSE base
        withInstance == ObjectAssign(withAuth, provider.customHeaders)
    IN  ObjectAssign(withInstance, ConfigHeaders(provider.id))

\* MessageContent is a plain string or a list of content parts
StringContent(t) == [isString |-> TRUE, text |-> t]

PartsContent(ps) == [isString |-> FALSE, parts |-> ps]

TextPart(t) == [type |-> "text", text |-> t]

\* an image part without a mediaType
ImagePart(d) == [type |-> "image", data |-> d]

IsTextPart(part) == part.type = "text"

RECURSIVE JoinLines(_)
JoinLines(parts) ==
    IF parts = <<>> THEN ""
    ELSE Head(parts).text \o (IF Tail(parts) = <<>> THEN "" ELSE "\n")
            \o JoinLines(Tail(parts))

getTextContent(content) ==
    IF content.isString THEN content.text
    ELSE JoinLines(SelectSeq(content.parts, IsTextPart))

mediaTypeOf(part) ==
    IF "mediaType" \in DOMAIN part THEN part.mediaType ELSE "image/png"

toOpenAIContent(content) ==
    IF content.isString THEN content
    ELSE PartsContent(
            [k \in DOMAIN content.parts |->
                LET part == content.parts[k] IN
                IF part.type = "text" THEN [type |-> "text", text |-> part.text]
                ELSE [type |-> "image_url",
                      image_url |-> [url |-> "data:" \o mediaTypeOf(part)
                                               \o ";base64," \o part.data]]])

toAnthropicContent(content) ==
    IF content.isString THEN content
    ELSE PartsContent(
            [k \in DOMAIN content.parts |->
                LET part == content.parts[k] IN
                IF part.type = "text" THEN [type |-> "text", text |-> part.text]
                ELSE [type |-> "image",
                      source |-> [type |-> "base64",
                                  media_type |-> mediaTypeOf(part),
                                  data |-> part.data]]])

IsSystem(m) == m.role = "system"

NonSystem(m) == m.role # "system"

\* messages.find((m) => m.role === 'system'): the first system message
FirstSystem(msgs) ==
    msgs[CHOOSE k \in DOMAIN msgs :
            /\ IsSystem(msgs[k])
            /\ \A j \in 1..(k - 1) : ~IsSystem(msgs[j])]

\* faulty variant: the system messages stay in the translated turns
transformForAnthropicKeepsSystem(msgs, maxTokens) ==
    LET turns == [k \in DOMAIN msgs |->
                    [role |-> msgs[k].role,
                     content |-> toAnthropicContent(msgs[k].content)]]
        rest == ("messages" :> turns @@ "max_tokens" :> maxTokens)
    IN  IF \E k \in DOMAIN msgs : IsSystem(msgs[k])
        THEN ("system" :> getTextContent(FirstSystem(msgs).content)) @@ rest
        ELSE rest

transformForAnthropic(msgs, maxTokens) ==
    LET nonSystemMessages == SelectSeq(msgs, NonSystem)
        turns == [k \in DOMAIN nonSystemMessages |->
                    [role |-> nonSystemMessages[k].role,
                     content |-> toAnthropicContent(nonSystemMessages[k].content)]]
        rest == ("messages" :> turns @@ "max_tokens" :> maxTokens)
    IN  IF \E k \in DOMAIN msgs : IsSystem(msgs[k])
        THEN ("system" :> getTextContent(FirstSystem(msgs).content)) @@ rest
        ELSE rest

maxTokensOf(provider, opts) ==
    IF "maxTokens" \in DOMAIN opts THEN opts.maxTokens
    ELSE IF "maxTokens" \in DOMAIN provider THEN provider.maxTokens
    ELSE DEFAULT_MAX_TOKENS

temperatureOf(opts) ==
    IF "temperature" \in DOMAIN opts THEN ("temperature" :> opts.temperature)
    ELSE NoHeaders

\* the object buildRequestBody serialises; JSON.stringify keeps every member
\* of it (strings, numbers, arrays and objects of those)
buildRequestBody(provider, msgs, opts) ==
    IF isAnthropicProvider(provider)
    THEN ("model" :> provider.model)
            @@ transformForAnthropic(msgs, maxTokensOf(provider, opts))
            @@ temperatureOf(opts)
    ELSE ("model" :> provider.model)
            @@ ("messages" :> [k \in DOMAIN msgs |->
                                 [role |-> msgs[k].role,
                                  content |-> toOpenAIContent(msgs[k].content)]])
            @@ ("max_tokens" :> maxTokensOf(provider, opts))
            @@ temperatureOf(opts)

getEndpointUrl(provider) ==
    IF isAnthropicProvider(provider) THEN provider.baseURL \o "/messages"
    ELSE provider.baseURL \o "/chat/completions"

\* faulty variant: the system message is taken out of the caller's array
\* (shift) instead of being looked up
MessagesAfterBuildShifts(provider, msgs) ==
    IF isAnthropicProvider(provider) /\ msgs # <<>> /\ IsSystem(Head(msgs))
    THEN Tail(msgs)
    ELSE msgs

\* the caller's message array once the request is built: find, filter and
\* map read it and return new arrays, the content converters build new parts
MessagesAfterBuild(provider, msgs) == msgs

\* the arguments callProvider hands to fetch
BuildRequest(provider, msgs, opts) ==
    [url |-> getEndpointUrl(provider), method |-> "POST",
     headers |-> buildHeaders(provider),
     body |-> buildRequestBody(provider, msgs, opts)]

NoRequest == [url |-> "", method |-> "", headers |-> NoHeaders, body |-> NoHeaders]

\* HTTP statuses a provider answers with; response.ok is the 2xx range
Statuses == {200, 401, 403, 404, 429, 500}

\* the statuses met during a chain walk (403 is classified like 401)
WalkStatuses == {200, 401, 404, 429, 500}

ResponseOk(status) == status >= 200 /\ status <= 299

\* Response bodies.  json says whether response.json() parses the body;
\* object says whether the parsed value is a non-null object; the other
\* fields are the members the client reads.
NotJsonBody == [json |-> FALSE]
\* no body has been read yet
NoBody == [json |-> FALSE, unread |-> TRUE]
JsonScalarBody == [json |-> TRUE, object |-> FALSE]
EmptyObjectBody == [json |-> TRUE, object |-> TRUE]
RetryAfterBody(n) == [json |-> TRUE, object |-> TRUE, retry_after |-> n]
NestedErrorBody ==
    [json |-> TRUE, object |-> TRUE, error |-> [message |-> "model overloaded"]]
FlatMessageBody == [json |-> TRUE, object |-> TRUE, message |-> "bad request"]
ChatCompletionBody ==
    [json |-> TRUE, object |-> TRUE, id |-> "c1", model |-> "m",
     choices |-> << [index |-> 0,
                     message |-> [role |-> "assistant", content |-> "hi"],
                     finish_reason |-> "stop"] >>]
AnthropicBody ==
    [json |-> TRUE, object |-> TRUE, id |-> "m1", model |-> "x",
     content |-> << [type |-> "text", text |-> "hi"] >>,
     stop_reason |-> "end_turn",
     usage |-> [input_tokens |-> 3, output_tokens |-> 1]]

\* a divergent-family response whose only content block is not text-typed
AnthropicToolUseBody ==
    [json |-> TRUE, object |-> TRUE, id |-> "m2", model |-> "x",
     content |-> << [type |-> "tool_use", id |-> "t1"] >>,
     stop_reason |-> "tool_use",
     usage |-> [input_tokens |-> 5, output_tokens |-> 2]]
\* a divergent-family response with two text blocks after a non-text block
AnthropicMixedBody ==
    [json |-> TRUE, object |-> TRUE, id |-> "m3", model |-> "x",
     content |-> << [type |-> "thinking", thinking |-> "hm"],
                    [type |-> "text", text |-> "first"],
                    [type |-> "text", text |-> "second"] >>,
     stop_reason |-> "max_tokens",
     usage |-> [input_tokens |-> 7, output_tokens |-> 4]]

ErrorBodies ==
    {NotJsonBody, JsonScalarBody, EmptyObjectBody, RetryAfterBody(2),
     RetryAfterBody(0), NestedErrorBody, FlatMessageBody}

OkBodies ==
    {NotJsonBody, JsonScalarBody, EmptyObjectBody, ChatCompletionBody,
     AnthropicBody, AnthropicToolUseBody, AnthropicMixedBody}

\* the bodies met during a chain walk
WalkErrorBodies == {NotJsonBody, RetryAfterBody(2)}

WalkOkBodies == {NotJsonBody, ChatCompletionBody, AnthropicBody}

BodiesFor(status) == IF ResponseOk(status) THEN OkBodies ELSE ErrorBodies

HasField(body, name) == body.json /\ body.object /\ name \in DOMAIN body

\* Values thrown inside callProvider's try block
AbortError == [isError |-> TRUE, name |-> "AbortError", message |-> "The operation was aborted"]
FetchTypeError == [isError |-> TRUE, name |-> "TypeError", message |-> "Failed to fetch"]
JsonSyntaxError == [isError |-> TRUE, name |-> "SyntaxError", message |-> "Unexpected token in JSON"]
BodyUsedError == [isError |-> TRUE, name |-> "TypeError", message |-> "Body is unusable"]
PropertyTypeError ==
    [isError |-> TRUE, name |-> "TypeError", message |-> "Cannot read properties of undefined"]
NonErrorValue == [isError |-> FALSE, name |-> "", message |-> ""]
NothingThrown == [isError |-> FALSE, name |-> "none", message |-> ""]

\* what a failing fetch() rejects with when the timer has not aborted it
FetchRejections == {FetchTypeError, NonErrorValue}

ErrorCodes == {"rate_limit", "auth_error", "network_error", "invalid_response", "unknown"}

Failure(error) == [success |-> FALSE, error |-> error]

\* faulty variant: the success result is not tagged with the instance
SuccessUntagged(provider, response) ==
    [success |-> TRUE, response |-> response, providerId |-> ""]

Success(provider, response) ==
    [success |-> TRUE, response |-> response, providerId |-> provider.id]

baseError(provider) ==
    [providerId |-> provider.id, code |-> "unknown", message |-> "Unknown error occurred"]

\* the message parseError pulls from the vendor's error body
ExtractMessage(status, errorBody) ==
    IF errorBody.json /\ errorBody.object
    THEN IF "error" \in DOMAIN errorBody
         THEN IF "message" \in DOMAIN errorBody.error
              THEN errorBody.error.message
              ELSE "Request failed with status " \o ToString(status)
         ELSE IF "message" \in DOMAIN errorBody
              THEN errorBody.message
              ELSE "Request failed with status " \o ToString(status)
    ELSE "Request failed with status " \o ToString(status)

\* faulty variant: a rate_limit error is built without retryAfterMs
parseErrorNoRetryAfter(provider, status, errorBody) ==
    IF status = 401 \/ status = 403
    THEN [providerId |-> provider.id, code |-> "auth_error",
          message |-> "Invalid API key or unauthorized access"]
    ELSE IF status = 429
    THEN [providerId |-> provider.id, code |-> "rate_limit",
          message |-> "Rate limit exceeded"]
    ELSE IF status >= 500
    THEN [providerId |-> provider.id, code |-> "network_error",
          message |-> "Server error: " \o ToString(status)]
    ELSE [providerId |-> provider.id, code |-> "invalid_response",
          message |-> ExtractMessage(status, errorBody)]

parseError(provider, status, errorBody) ==
    IF status = 401 \/ status = 403
    THEN [providerId |-> provider.id, code |-> "auth_error",
          message |-> "Invalid API key or unauthorized access"]
    ELSE IF status = 429
    THEN [providerId |-> provider.id, code |-> "rate_limit",
          message |-> "Rate limit exceeded",
          retryAfterMs |->
              IF HasField(errorBody, "retry_after") /\ errorBody.retry_after # 0
              THEN errorBody.retry_after * 1000
              ELSE 60000]
    ELSE IF status >= 500
    THEN [providerId |-> provider.id, code |-> "network_error",
          message |-> "Server error: " \o ToString(status)]
    ELSE [providerId |-> provider.id, code |-> "invalid_response",
          message |-> ExtractMessage(status, errorBody)]

\* r.content.find / r.usage.input_tokens throw a TypeError on a body
\* without those members
AnthropicTransformThrows(data) ==
    ~(HasField(data, "content") /\ HasField(data, "usage"))

\* faulty variant: the last text-typed block is taken
FirstTextBlockLast(content) ==
    IF \E k \in DOMAIN content : content[k].type = "text"
    THEN content[CHOOSE k \in DOMAIN content :
                    /\ content[k].type = "text"
                    /\ \A j \in (k + 1)..Len(content) : content[j].type # "text"].text
    ELSE ""

FirstTextBlock(content) ==
    IF \E k \in DOMAIN content : content[k].type = "text"
    THEN content[CHOOSE k \in DOMAIN content :
                    /\ content[k].type = "text"
                    /\ \A j \in 1..(k - 1) : content[j].type # "text"].text
    ELSE ""

\* created (Date.now()) is left out: no claim reads it
transformAnthropicResponse(r) ==
    [id |-> r.id, object |-> "chat.completion", model |-> r.model,
     choices |-> << [index |-> 0,
                     message |-> [role |-> "assistant",
                                  content |-> FirstTextBlock(r.content)],
                     finish_reason |-> r.stop_reason] >>,
     usage |-> [prompt_tokens |-> r.usage.input_tokens,
                completion_tokens |-> r.usage.output_tokens,
                total_tokens |-> r.usage.input_tokens + r.usage.output_tokens]]

\* faulty variant: the caller's timeoutMs is not read
timeoutOfDefaultOnly(opts) == DEFAULT_TIMEOUT_MS

timeoutOf(opts) ==
    IF "timeoutMs" \in DOMAIN opts THEN opts.timeoutMs ELSE DEFAULT_TIMEOUT_MS

\* getResponseText: response.choices[0]?.message?.content ?? ''; reading
\* choices[0] throws a TypeError when the response has no choices member
getResponseText(response) ==
    IF "choices" \notin DOMAIN response
    THEN [threw |-> TRUE, text |-> ""]
    ELSE IF response.choices = <<>>
    THEN [threw |-> FALSE, text |-> ""]
    ELSE LET choice == response.choices[1] IN
         IF "message" \in DOMAIN choice /\ "content" \in DOMAIN choice.message
         THEN [threw |-> FALSE, text |-> choice.message.content]
         ELSE [threw |-> FALSE, text |-> ""]

\* faulty variant: only the abort is recognised, every other thrown value
\* falls through to the unknown kind
CatchResultAbortOnly(provider, thrown, timeoutMs) ==
    IF thrown.isError /\ thrown.name = "AbortError"
    THEN Failure([providerId |-> provider.id, code |-> "network_error",
                  message |-> "Request timed out after "
                                 \o ToString(timeoutMs) \o "ms"])
    ELSE Failure([providerId |-> provider.id, code |-> "unknown",
                  message |-> "Unknown error occurred"])

\* the catch block of callProvider
CatchResult(provider, thrown, timeoutMs) ==
    IF thrown.isError
    THEN IF thrown.name = "AbortError"
         THEN Failure([providerId |-> provider.id, code |-> "network_error",
                       message |-> "Request timed out after "
                                      \o ToString(timeoutMs) \o "ms"])
         ELSE Failure([providerId |-> provider.id, code |-> "network_error",
                       message |-> thrown.message])
    ELSE Failure([providerId |-> provider.id, code |-> "unknown",
                  message |-> "Unknown error occurred"])

\* how a step of callProvider ends: the promise resolves with a result, or
\* rejects when a thrown value escapes
Resolved(result) == [rejected |-> FALSE, result |-> result, thrown |-> NothingThrown]

NoResult == [pending |-> TRUE]

Rejected(thrown) == [rejected |-> TRUE, result |-> NoResult, thrown |-> thrown]

\* faulty variant: reading the body sits outside the try block, so a body
\* that does not parse escapes as a rejection
TryCatchFetchOnly(provider, thrown, timeoutMs) ==
    IF thrown.name \in {"SyntaxError"} \/ thrown.message = "Body is unusable"
    THEN Rejected(thrown)
    ELSE [rejected |-> FALSE, result |-> CatchResult(provider, thrown, timeoutMs),
          thrown |-> thrown]

\* every statement after the timeout computation runs inside try { } catch:
\* whatever is thrown there reaches the catch block
TryCatch(provider, thrown, timeoutMs) ==
    [rejected |-> FALSE, result |-> CatchResult(provider, thrown, timeoutMs),
     thrown |-> thrown]

\* the part of callProvider that runs once the response headers arrived
AfterResponse(provider, status, body, timeoutMs) ==
    IF ~ResponseOk(status)
    THEN IF body.json
         THEN Resolved(Failure(parseError(provider, status, body)))
         \* response.json() failed and consumed the body: response.text()
         \* in the inner catch rejects, and the outer catch takes over
         ELSE TryCatch(provider, BodyUsedError, timeoutMs)
    ELSE IF ~body.json
         THEN TryCatch(provider, JsonSyntaxError, timeoutMs)
         ELSE IF isAnthropicProvider(provider)
              THEN IF AnthropicTransformThrows(body)
                   THEN TryCatch(provider, PropertyTypeError, timeoutMs)
                   ELSE Resolved(Success(provider, transformAnthropicResponse(body)))
              ELSE Resolved(Success(provider, body))

\* faulty variant: the timeout stops waiting but leaves the request running
AbortLeavesNetwork(net) == net

\* controller.abort(): the pending network operation is cancelled
AbortNetwork(net) == IF net = "inflight" THEN "aborted" ELSE net

IdleCall == [pc |-> "idle", timer |-> FALSE, net |-> "none", status |-> 0,
             body |-> NoBody,
             thrown |-> NothingThrown, result |-> NoResult]

\* callProvider up to its first await: the timer is armed, fetch is issued
StartedCall == [pc |-> "fetch", timer |-> TRUE, net |-> "inflight", status |-> 0,
                body |-> NoBody,
                thrown |-> NothingThrown, result |-> NoResult]

Settle(call, out, net) ==
    [call EXCEPT !.pc = IF out.rejected THEN "rejected" ELSE "returned",
                 !.result = out.result,
                 !.thrown = out.thrown,
                 !.net = net]

(***************************************************************************)
(* Fallback orchestrator (specification 4.3, "Algorithm")                  *)
(***************************************************************************)
\* the retriability predicate: these kinds make the walk try the next instance
RetriableCodes == {"auth_error", "rate_limit", "network_error", "invalid_response"}

isRetriable(error) == error.code \in RetriableCodes

\* the sentinel identifier of the synthesized failure ("the chain itself")
FALLBACK_PROVIDER_ID == "fallback-chain"

RECURSIVE JoinErrors(_)
JoinErrors(errs) ==
    IF errs = <<>> THEN ""
    ELSE Head(errs).providerId \o ": " \o Head(errs).message
            \o (IF Tail(errs) = <<>> THEN "" ELSE "; ")
            \o JoinErrors(Tail(errs))

\* faulty variant: the last provider's message alone, under its identifier
SynthesizedFromLast(errs) ==
    IF errs = <<>>
    THEN Failure([providerId |-> FALLBACK_PROVIDER_ID, code |-> "unknown",
                  message |-> "All providers failed: "])
    ELSE Failure([providerId |-> errs[Len(errs)].providerId, code |-> "unknown",
                  message |-> "All providers failed: " \o errs[Len(errs)].message])

\* the failure returned when every instance was skipped or failed
SynthesizedFailure(errs) ==
    Failure([providerId |-> FALLBACK_PROVIDER_ID, code |-> "unknown",
             message |-> "All providers failed: " \o JoinErrors(errs)])

FallbackOutcome(result, attempted, errs) ==
    [result |-> result, attemptedProviders |-> attempted, errors |-> errs]

NoOutcome == FallbackOutcome(NoResult, <<>>, <<>>)

\* the options the callers pass: TestPanel passes none, VisionDebugPanel
\* passes maxTokens 1024 and timeoutMs 60000
NoOptions == [k \in {} |-> 0]

VisionOptions == [maxTokens |-> 1024, timeoutMs |-> 60000]

CallerOptions == {NoOptions, VisionOptions}

\* the options of the chain walks explored (TestPanel's call)
WalkOptions == {NoOptions}

\* faulty variant: only a failure the walk continues after is recorded
RecordErrorIfRetriable(errs, error) ==
    IF isRetriable(error) THEN Append(errs, error) ELSE errs

\* a failure is appended to the error list before retriability is consulted
RecordError(errs, error) == Append(errs, error)

\* faulty variant: the identifier is put in front of the attempted list
RecordAttemptFirst(attempted, id) == <<id>> \o attempted

\* the identifier of an invoked instance is appended to the attempted list
RecordAttempt(attempted, id) == Append(attempted, id)

\* faulty variant: the walk has no skip-check of its own
SkipsNothing(p) == FALSE

\* the walk skips an instance that is not enabled
SkipsInstance(p) == ~p.enabled

\* await callProvider(...): the walk resumes once the call has settled
CallSettled(call) == call.pc \in {"returned", "rejected"}

(***************************************************************************)
(* Configured instances (initializeProviders, setApiKey)                   *)
(***************************************************************************)
\* name, baseURL and defaultModel of the catalog entries, in catalog order
CONFIG_ENDPOINTS ==
    << [name |-> "Anthropic (Claude)", baseURL |-> "https://api.anthropic.com/v1",
        defaultModel |-> "claude-sonnet-4-5-20250514"],
       [name |-> "OpenAI", baseURL |-> "https://api.openai.com/v1",
        defaultModel |-> "gpt-4o"],
       [name |-> "Google (Gemini)",
        baseURL |-> "https://generativelanguage.googleapis.com/v1beta/openai",
        defaultModel |-> "gemini-2.5-pro-preview-05-06"],
       [name |-> "DeepSeek", baseURL |-> "https://api.deepseek.com/v1",
        defaultModel |-> "deepseek-chat"],
       [name |-> "Mistral", baseURL |-> "https://api.mistral.ai/v1",
        defaultModel |-> "mistral-large-latest"],
       [name |-> "Groq", baseURL |-> "https://api.groq.com/openai/v1",
        defaultModel |-> "llama-3.3-70b-versatile"],
       [name |-> "OpenRouter", baseURL |-> "https://openrouter.ai/api/v1",
        defaultModel |-> "meta-llama/llama-3.3-70b-instruct:free"],
       [name |-> "Google AI Studio",
        baseURL |-> "https://generativelanguage.googleapis.com/v1beta/openai",
        defaultModel |-> "gemini-2.0-flash"],
       [name |-> "Ollama (Local)", baseURL |-> "http://localhost:11434/v1",
        defaultModel |-> "llama3.3:8b"],
       [name |-> "LM Studio (Local)", baseURL |-> "http://localhost:1234/v1",
        defaultModel |-> "local-model"] >>

getProviderById(id) == PROVIDER_CONFIGS[CatalogIndex(id)]

\* the credentials an instance is configured with: none, or a key
ApiKeys == {"", "sk-test"}

\* an LLMProvider as initializeProviders creates it and setApiKey updates it
LLMProvider(id, apiKey, headers) ==
    LET config == getProviderById(id)
        endpoint == CONFIG_ENDPOINTS[CatalogIndex(id)]
    IN  [id |-> id, name |-> endpoint.name, baseURL |-> endpoint.baseURL,
         apiKey |-> apiKey, model |-> endpoint.defaultModel,
         tier |-> config.tier, maxTokens |-> 2048,
         enabled |-> (apiKey # "" \/ config.tier = "local"),
         customHeaders |-> headers]

\* the instances a call or a probe is made for; the persisted customHeaders
\* are the definition's, none, or those of another API version
LLMProviders ==
    {LLMProvider(id, apiKey, headers) :
        id \in ModelledIds, apiKey \in ApiKeys,
        headers \in {NoHeaders, OverrideHeaders}}
    \cup {LLMProvider(id, apiKey, ConfigHeaders(id)) :
            id \in ModelledIds, apiKey \in ApiKeys}

(***************************************************************************)
(* Messages                                                                *)
(***************************************************************************)
\* the longest message list handed to callProvider
MaxMessages == 2

Message(role, content) == [role |-> role, content |-> content]

SampleMessages ==
    {Message("system", StringContent("S")),
     Message("system", StringContent("S2")),
     Message("user", StringContent("U")),
     Message("user", PartsContent(<<TextPart("look"), ImagePart("iVBOR")>>)),
     Message("assistant", StringContent("A"))}

MessageLists == UNION {[1..n -> SampleMessages] : n \in 0..MaxMessages}

(***************************************************************************)
(* Health prober (health.ts)                                               *)
(***************************************************************************)
HEALTH_CHECK_TIMEOUT_MS == 10000

LOCAL_CHECK_TIMEOUT_MS == 5000

DEGRADED_LATENCY_MS == 5000

TEST_MESSAGES == << Message("user", StringContent("Say \"OK\" and nothing else.")) >>

HealthOptions == [maxTokens |-> 10, timeoutMs |-> HEALTH_CHECK_TIMEOUT_MS]

\* lastChecked (Date.now()) is left out: no claim reads it
NoHealth == [providerId |-> "", status |-> "none"]

NotRunningHealth(provider) ==
    [providerId |-> provider.id, status |-> "unhealthy",
     error |-> provider.name \o " is not running at " \o provider.baseURL]

NoApiKeyHealth(provider) ==
    [providerId |-> provider.id, status |-> "unknown",
     error |-> "No API key configured"]

\* faulty variant: a slow success is still reported healthy
ClassifyHealthIgnoresLatency(provider, result, latencyMs) ==
    IF result.success
    THEN [providerId |-> provider.id, status |-> "healthy", latencyMs |-> latencyMs]
    ELSE [providerId |-> provider.id,
          status |-> IF result.error.code = "rate_limit" THEN "degraded"
                     ELSE "unhealthy",
          latencyMs |-> latencyMs, error |-> result.error.message]

\* the classification of the test call's result
ClassifyHealth(provider, result, latencyMs) ==
    IF result.success
    THEN [providerId |-> provider.id,
          status |-> IF latencyMs > DEGRADED_LATENCY_MS THEN "degraded" ELSE "healthy",
          latencyMs |-> latencyMs]
    ELSE [providerId |-> provider.id,
          status |-> IF result.error.code = "rate_limit" THEN "degraded"
                     ELSE "unhealthy",
          latencyMs |-> latencyMs, error |-> result.error.message]

\* faulty variant: no instance is checked for reachability first
NeedsLocalCheckNever(provider) == FALSE

\* a local instance is first checked for reachability
NeedsLocalCheck(provider) == provider.tier = "local"

\* faulty variant: the credential is not looked at before the test call
MissingApiKeyNever(provider) == FALSE

\* the probe stops before the test call when a hosted instance has no key
MissingApiKey(provider) == provider.tier # "local" /\ provider.apiKey = ""

\* faulty variant: an empty key is not recognised
HasNoApiKeyNever(provider) == FALSE

\* validateApiKey: !provider.apiKey
HasNoApiKey(provider) == provider.apiKey = ""

NoApiKeyValidation == [valid |-> FALSE, error |-> "No API key provided"]

\* faulty variant: a throttled key is reported invalid
ClassifyValidationStrict(result) ==
    IF result.success THEN [valid |-> TRUE]
    ELSE IF result.error.code = "auth_error"
    THEN [valid |-> FALSE, error |-> "Invalid API key"]
    ELSE [valid |-> FALSE, error |-> result.error.message]

\* what validateApiKey makes of the test call's result
ClassifyValidation(result) ==
    IF result.success THEN [valid |-> TRUE]
    ELSE IF result.error.code = "auth_error"
    THEN [valid |-> FALSE, error |-> "Invalid API key"]
    ELSE IF result.error.code = "rate_limit" THEN [valid |-> TRUE]
    ELSE [valid |-> FALSE, error |-> result.error.message]

\* Date.now() - startTime, in milliseconds, as sampled
Latencies == {120, 4999, 5000, 5001, 10000, 12000}

\* the fetch of checkLocalProviderRunning
IdleLocal == [pc |-> "idle", timer |-> FALSE, net |-> "none", ok |-> FALSE]

StartedLocal == [pc |-> "fetch", timer |-> TRUE, net |-> "inflight", ok |-> FALSE]

\* how many instances are probed side by side
NumProbes == 2

\* one probe of a checkAllProvidersHealth call
ProbeOf(pc, local, h) == [pc |-> pc, local |-> local, health |-> h]

\* checkProviderHealth up to its first await or return, for one instance
StartedProbe(provider) ==
    IF NeedsLocalCheck(provider) THEN ProbeOf("local", StartedLocal, NoHealth)
    ELSE IF MissingApiKey(provider)
    THEN ProbeOf("done", IdleLocal, NoApiKeyHealth(provider))
    ELSE ProbeOf("calling", IdleLocal, NoHealth)

\* faulty variant: only the instances that are not unhealthy get an entry
HealthMapOfHealthyOnly(list, ps) ==
    [id \in {list[i].id : i \in {j \in DOMAIN list : ps[j].health.status # "unhealthy"}} |->
        ps[CHOOSE i \in DOMAIN list :
              /\ list[i].id = id
              /\ \A j \in (i + 1)..Len(list) : list[j].id # id].health]

\* new Map(results): one entry per identifier, a later pair replacing an
\* earlier one with the same key
HealthMapOf(list, ps) ==
    [id \in {list[i].id : i \in DOMAIN list} |->
        ps[CHOOSE i \in DOMAIN list :
              /\ list[i].id = id
              /\ \A j \in (i + 1)..Len(list) : list[j].id # id].health]

\* the instance lists handed to checkAllProvidersHealth: NumProbes of the
\* store's instances, in catalog order, each with or without a key
ProbeAllLists ==
    LET n == Min(NumProbes, Cardinality(ModelledIds)) IN
    {[k \in 1..n |-> LLMProvider(ids[k], keys[k], ConfigHeaders(ids[k]))] :
        ids \in {s \in [1..n -> ModelledIds] :
                    \A i, j \in 1..n :
                        i < j => CatalogIndex(s[i]) < CatalogIndex(s[j])},
        keys \in [1..n -> ApiKeys]}

\* what the providers answer to the probes of one checkAllProvidersHealth call
BatchStatuses == {200, 429, 500}

BatchBodies == {ChatCompletionBody, AnthropicBody, EmptyObjectBody}

BatchLatencies == {120, 5001, 10000}

(***************************************************************************)
(* Settings panel (Settings.tsx)                                           *)
(***************************************************************************)
\* no handleTestConnection is running for the provider
NoClosure == [running |-> FALSE]

\* what a handleTestConnection call holds while it awaits the probe: the
\* provider it found and the healthStatus of the render it was created in
Closure(provider, status) ==
    [running |-> TRUE, provider |-> provider, healthStatus |-> status]

providerOf(list, id) == list[CHOOSE k \in DOMAIN list : list[k].id = id]

\* new Map(map).set(key, value)
MapSet(map, key, value) ==
    [k \in DOMAIN map \cup {key} |-> IF k = key THEN value ELSE map[k]]

\* what checkProviderHealth can resolve to for an instance
ProbeHealths(provider) ==
    (IF NeedsLocalCheck(provider) THEN {NotRunningHealth(provider)} ELSE {})
        \cup (IF MissingApiKey(provider) THEN {NoApiKeyHealth(provider)} ELSE {})
        \cup {ClassifyHealth(provider, Success(provider, ChatCompletionBody), 120),
              ClassifyHealth(provider,
                             TryCatch(provider, FetchTypeError,
                                      HEALTH_CHECK_TIMEOUT_MS).result, 120)}

\* the test state handleTestConnection shows for a probe result
TestStatusOf(h) == IF h.status \in {"healthy", "degraded"} THEN "success" ELSE "error"

(***************************************************************************)
(* CaptureManager (capture.ts)                                             *)
(***************************************************************************)
\* how many setTimeout timers of the manager the model keeps apart
MaxTimers == 3

DEFAULT_INTERVAL_MS == 2000

\* the granularity of the model's clock
TickMs == 1000

\* the intervals start() is called with
CaptureIntervals == {1000, 2000}

LongestInterval == CHOOSE m \in CaptureIntervals : \A n \in CaptureIntervals : n <= m

TimerHandles == 1..MaxTimers

\* timeoutId: null, or a handle whose timer already fired
NullTimeout == 0

FiredTimeout == -1

\* a handle with no pending timer
NoTimer == [left |-> -1, delay |-> -1]

\* setTimeout(callback, delayMs)
Timer(delayMs) == [left |-> delayMs, delay |-> delayMs]

PendingTimers == {h \in TimerHandles : timers[h] # NoTimer}

HasFreeHandle == \E h \in TimerHandles : timers[h] = NoTimer

FreeHandle ==
    CHOOSE h \in TimerHandles :
        timers[h] = NoTimer /\ \A g \in 1..(h - 1) : timers[g] # NoTimer

NoScreenshot == [seq |-> 0, changed |-> FALSE, data |-> ""]

\* the screenshots captureScreen resolves to, told apart by seq; data is
\* empty when the capture backend is not available
Screenshot(seq, changed, data) == [seq |-> seq, changed |-> changed, data |-> data]

ScreenshotData == {"", "iVBOR"}

NextSeq(shot) == (shot.seq % 3) + 1

NoError == ""

CaptureFailed == "capture failed"

(***************************************************************************)
(* Screen test panel (VisionDebugPanel.tsx)                                *)
(***************************************************************************)
AUTO_ANALYZE_COOLDOWN_MS == 15000

\* Date.now() when the panel is mounted
MountTime == 100000

\* the step the clock advances by
ClockStepMs == 5000

\* how many steps the model lets the clock run
MaxClockSteps == 6

(***************************************************************************)
(* Provider store (useProviderStore)                                       *)
(***************************************************************************)
DEFAULT_FALLBACK_ORDER == <<"groq", "openrouter", "google-ai-studio", "ollama">>

CatalogOrderIds == [k \in DOMAIN PROVIDER_CONFIGS |-> PROVIDER_CONFIGS[k].id]

IsModelled(id) == id \in ModelledIds

\* PROVIDER_CONFIGS.map(...): one instance per catalog entry, in catalog
\* order, without a key, enabled when local
initializeProviders ==
    LET ids == SelectSeq(CatalogOrderIds, IsModelled)
    IN  [k \in DOMAIN ids |-> LLMProvider(ids[k], "", ConfigHeaders(ids[k]))]

\* faulty variant: the updated instance is added, the old one stays
setApiKeyAppends(list, providerId, apiKey) ==
    LET hits == SelectSeq(list, LAMBDA p : p.id = providerId)
    IN  list \o [k \in DOMAIN hits |->
                    [hits[k] EXCEPT !.apiKey = apiKey,
                                    !.enabled = (apiKey # "" \/ hits[k].tier = "local")]]

setApiKey(list, providerId, apiKey) ==
    [k \in DOMAIN list |->
        IF list[k].id = providerId
        THEN [list[k] EXCEPT !.apiKey = apiKey,
                             !.enabled = (apiKey # "" \/ list[k].tier = "local")]
        ELSE list[k]]

setProviderEnabled(list, providerId, enabled) ==
    [k \in DOMAIN list |->
        IF list[k].id = providerId THEN [list[k] EXCEPT !.enabled = enabled]
        ELSE list[k]]

setProviderModel(list, providerId, model) ==
    [k \in DOMAIN list |->
        IF list[k].id = providerId THEN [list[k] EXCEPT !.model = model]
        ELSE list[k]]

\* fallbackOrder.indexOf(id), with 999 for an identifier that is not listed
orderOf(order, id) ==
    IF \E k \in DOMAIN order : order[k] = id
    THEN (CHOOSE k \in DOMAIN order :
            order[k] = id /\ \A j \in 1..(k - 1) : order[j] # id) - 1
    ELSE 999

\* p goes behind every element of the sorted list whose order is not greater
RECURSIVE insertByOrder(_, _, _)
insertByOrder(sorted, p, order) ==
    IF sorted = <<>> THEN <<p>>
    ELSE IF orderOf(order, p.id) - orderOf(order, Head(sorted).id) < 0
         THEN <<p>> \o sorted
         ELSE <<Head(sorted)>> \o insertByOrder(Tail(sorted), p, order)

\* [...providers].sort((a, b) => aOrder - bOrder): a stable sort of a copy
RECURSIVE sortedProviders(_, _)
sortedProviders(list, order) ==
    IF list = <<>> THEN <<>>
    ELSE insertByOrder(sortedProviders(SubSeq(list, 1, Len(list) - 1), order),
                       list[Len(list)], order)

NoHealthEntries == [k \in {} |-> NoHealth]

IsUnhealthy(state, id) ==
    id \in DOMAIN state.healthStatus /\ state.healthStatus[id].status = "unhealthy"

\* faulty variant: instances last probed unhealthy are left out of the chain
getProviderChainSkipsUnhealthy(state) ==
    buildProviderChain(
        SelectSeq(sortedProviders(state.providers, state.fallbackOrder),
                  LAMBDA p : ~IsUnhealthy(state, p.id)),
        state.primaryProviderId)

\* the store's computed chain; state is what get() returns
getProviderChain(state) ==
    buildProviderChain(sortedProviders(state.providers, state.fallbackOrder),
                       state.primaryProviderId)

StoreState ==
    [providers |-> providers, primaryProviderId |-> primaryProviderId,
     fallbackOrder |-> fallbackOrder, healthStatus |-> healthStatus]

\* the models a user picks for an instance: its default model, and for the
\* first catalog entry another one
ModelChoices(id) ==
    {CONFIG_ENDPOINTS[CatalogIndex(id)].defaultModel}
        \cup (IF CatalogIndex(id) = 1 THEN {"custom-model"} ELSE {})

\* the orders handed to setFallbackOrder
FallbackOrders ==
    {DEFAULT_FALLBACK_ORDER, <<>>,
     <<"anthropic", "openai", "groq", "ollama">>,
     <<"ollama", "groq", "anthropic">>}

HealthMapOfStatus(status) ==
    [id \in ModelledIds |-> [providerId |-> id, status |-> status]]

\* the maps handed to updateHealthStatus
HealthMaps ==
    {NoHealthEntries, HealthMapOfStatus("healthy"), HealthMapOfStatus("unhealthy")}

(***************************************************************************)
(* Actions                                                                 *)
(***************************************************************************)
walkVars == <<options, fbPc, idx, attemptedProviders, errors, calls, outcome>>

clientVars == <<messages, request, probePc, localCall, health>>

storeVars == <<fallbackOrder, healthStatus>>

batchVars == <<validation, probes, healthMap>>

settingsVars == <<testStates, closures>>

captureVars == <<isCapturing, isBusy, timeoutId, timers, intervalMs, inFlight,
                 lastScreenshot, sinceFinished>>

panelVars == <<screenshotRef, panelError, isAnalyzingRef, lastAnalyzeTimeRef, now,
               autoAnalyze, analyses>>

uiVars == <<settingsVars, captureVars, panelVars>>

\* the caller builds the chain from its instance list and primary preference
BuildChain ==
    /\ fbPc = "config"
    /\ chain' = buildProviderChain(providers, primaryProviderId)
    /\ fbPc' = "ready"
    /\ UNCHANGED <<providers, primaryProviderId, options, idx,
                   attemptedProviders, errors, calls, outcome>>
    /\ UNCHANGED clientVars
    /\ UNCHANGED <<storeVars, batchVars>>
    /\ UNCHANGED uiVars

\* a caller without a primary preference hands its instance list to
\* callWithFallback as it is, disabled instances included
DirectChain ==
    /\ fbPc = "config"
    /\ primaryProviderId = NoPrimary
    /\ chain' = providers
    /\ fbPc' = "ready"
    /\ UNCHANGED <<providers, primaryProviderId, options, idx,
                   attemptedProviders, errors, calls, outcome>>
    /\ UNCHANGED clientVars
    /\ UNCHANGED <<storeVars, batchVars>>
    /\ UNCHANGED uiVars

\* callWithFallback(chain, messages, opts) is entered
FallbackCall(opts) ==
    /\ fbPc = "ready"
    /\ fbPc' = "walking"
    /\ options' = opts
    /\ idx' = 1
    /\ attemptedProviders' = <<>>
    /\ errors' = <<>>
    /\ calls' = [i \in DOMAIN chain |-> IdleCall]
    /\ UNCHANGED <<providers, primaryProviderId, chain, outcome>>
    /\ UNCHANGED clientVars
    /\ UNCHANGED <<storeVars, batchVars>>
    /\ UNCHANGED uiVars

\* a disabled instance is passed over without recording an attempt
FallbackSkip ==
    /\ fbPc = "walking"
    /\ idx <= Len(chain)
    /\ SkipsInstance(chain[idx])
    /\ idx' = idx + 1
    /\ UNCHANGED <<providers, primaryProviderId, chain, options, fbPc,
                   attemptedProviders, errors, calls, outcome>>
    /\ UNCHANGED clientVars
    /\ UNCHANGED <<storeVars, batchVars>>
    /\ UNCHANGED uiVars

\* an enabled instance is invoked and its identifier recorded
FallbackAttempt ==
    /\ fbPc = "walking"
    /\ idx <= Len(chain)
    /\ ~SkipsInstance(chain[idx])
    /\ calls[idx].pc = "idle"
    /\ attemptedProviders' = RecordAttempt(attemptedProviders, chain[idx].id)
    /\ calls' = [calls EXCEPT ![idx] = StartedCall]
    /\ UNCHANGED <<providers, primaryProviderId, chain, options, fbPc, idx,
                   errors, outcome>>
    /\ UNCHANGED clientVars
    /\ UNCHANGED <<storeVars, batchVars>>
    /\ UNCHANGED uiVars

\* fetch resolves with the response headers; clearTimeout disarms the timer
FetchResponds(i, status) ==
    /\ calls[i].pc = "fetch"
    /\ calls[i].net = "inflight"
    /\ calls' = [calls EXCEPT ![i] =
                    [@ EXCEPT !.pc = "body", !.timer = FALSE, !.status = status]]
    /\ UNCHANGED <<providers, primaryProviderId, chain, options, fbPc, idx,
                   attemptedProviders, errors, outcome>>
    /\ UNCHANGED clientVars
    /\ UNCHANGED <<storeVars, batchVars>>
    /\ UNCHANGED uiVars

\* fetch rejects (network failure); the catch block returns, the timer stays armed
FetchRejects(i, thrown) ==
    /\ calls[i].pc = "fetch"
    /\ calls[i].net = "inflight"
    /\ calls' = [calls EXCEPT ![i] =
                    Settle(@, TryCatch(chain[i], thrown, timeoutOf(options)), "done")]
    /\ UNCHANGED <<providers, primaryProviderId, chain, options, fbPc, idx,
                   attemptedProviders, errors, outcome>>
    /\ UNCHANGED clientVars
    /\ UNCHANGED <<storeVars, batchVars>>
    /\ UNCHANGED uiVars

\* the deadline timer fires: controller.abort(); a pending fetch rejects with
\* an AbortError, a settled one is not affected
TimerFires(i) ==
    /\ calls[i].timer
    /\ LET call == calls[i] IN
        calls' = [calls EXCEPT ![i] =
                    IF call.pc = "fetch"
                    THEN [Settle(call, TryCatch(chain[i], AbortError, timeoutOf(options)),
                                 AbortNetwork(call.net))
                            EXCEPT !.timer = FALSE]
                    ELSE [call EXCEPT !.timer = FALSE, !.net = AbortNetwork(call.net)]]
    /\ UNCHANGED <<providers, primaryProviderId, chain, options, fbPc, idx,
                   attemptedProviders, errors, outcome>>
    /\ UNCHANGED clientVars
    /\ UNCHANGED <<storeVars, batchVars>>
    /\ UNCHANGED uiVars

\* the response body arrives and is read; callProvider returns
ReadBody(i, body) ==
    /\ calls[i].pc = "body"
    /\ body \in BodiesFor(calls[i].status)
    /\ LET call == [calls[i] EXCEPT !.body = body] IN
        calls' = [calls EXCEPT ![i] =
                    Settle(call, AfterResponse(chain[i], call.status, body,
                                               timeoutOf(options)),
                           "done")]
    /\ UNCHANGED <<providers, primaryProviderId, chain, options, fbPc, idx,
                   attemptedProviders, errors, outcome>>
    /\ UNCHANGED clientVars
    /\ UNCHANGED <<storeVars, batchVars>>
    /\ UNCHANGED uiVars

\* the awaited call has settled: success ends the walk, a failure is recorded
\* and either ends the walk (fatal) or moves it to the next instance
FallbackResult ==
    /\ fbPc = "walking"
    /\ idx <= Len(chain)
    /\ calls[idx].pc # "idle"
    /\ CallSettled(calls[idx])
    /\ LET call == calls[idx] IN
        IF call.pc = "rejected"
        THEN /\ fbPc' = "rejected"
             /\ UNCHANGED <<idx, errors, outcome>>
        ELSE IF call.result.success
        THEN /\ fbPc' = "done"
             /\ outcome' = FallbackOutcome(call.result, attemptedProviders, errors)
             /\ UNCHANGED <<idx, errors>>
        ELSE /\ errors' = RecordError(errors, call.result.error)
             /\ IF isRetriable(call.result.error)
                THEN /\ idx' = idx + 1
                     /\ UNCHANGED <<fbPc, outcome>>
                ELSE /\ fbPc' = "done"
                     /\ outcome' = FallbackOutcome(call.result, attemptedProviders,
                                                   errors')
                     /\ UNCHANGED idx
    /\ UNCHANGED <<providers, primaryProviderId, chain, options,
                   attemptedProviders, calls>>
    /\ UNCHANGED clientVars
    /\ UNCHANGED <<storeVars, batchVars>>
    /\ UNCHANGED uiVars

\* the chain is exhausted: the synthesized failure is returned
FallbackExhausted ==
    /\ fbPc = "walking"
    /\ idx > Len(chain)
    /\ fbPc' = "done"
    /\ outcome' = FallbackOutcome(SynthesizedFailure(errors), attemptedProviders, errors)
    /\ UNCHANGED <<providers, primaryProviderId, chain, options, idx,
                   attemptedProviders, errors, calls>>
    /\ UNCHANGED clientVars
    /\ UNCHANGED <<storeVars, batchVars>>
    /\ UNCHANGED uiVars

\* a caller constructs the messages of a call
ComposeMessages(msgs) ==
    /\ probePc = "idle"
    /\ probePc' = "composed"
    /\ messages' = msgs
    /\ UNCHANGED <<providers, primaryProviderId, chain, options, fbPc, idx,
                   attemptedProviders, errors, calls, outcome,
                   request, localCall, health>>
    /\ UNCHANGED <<storeVars, batchVars>>
    /\ UNCHANGED uiVars

\* callProvider up to its first await: the request is built, the deadline
\* timer armed and fetch issued
Invoke(opts) ==
    /\ probePc = "composed"
    /\ probePc' = "invoking"
    /\ messages' = MessagesAfterBuild(chain[1], messages)
    /\ options' = opts
    /\ request' = BuildRequest(chain[1], messages, opts)
    /\ calls' = <<StartedCall>>
    /\ UNCHANGED <<providers, primaryProviderId, chain, fbPc, idx,
                   attemptedProviders, errors, outcome, localCall, health>>
    /\ UNCHANGED <<storeVars, batchVars>>
    /\ UNCHANGED uiVars

\* the test call of a probe: callProvider(provider, TEST_MESSAGES, ...)
ProbeCall ==
    /\ probePc' = "calling"
    /\ messages' = MessagesAfterBuild(chain[1], TEST_MESSAGES)
    /\ options' = HealthOptions
    /\ request' = BuildRequest(chain[1], TEST_MESSAGES, HealthOptions)
    /\ calls' = <<StartedCall>>
    /\ UNCHANGED health

\* the probe returns without a test call
ProbeReturns(h) ==
    /\ probePc' = "done"
    /\ health' = h
    /\ UNCHANGED <<messages, options, request, calls>>

\* checkProviderHealth up to its first await or return
ProbeStart ==
    /\ probePc = "idle"
    /\ IF NeedsLocalCheck(chain[1])
       THEN /\ probePc' = "local"
            /\ localCall' = StartedLocal
            /\ UNCHANGED <<messages, options, request, calls, health>>
       ELSE /\ IF MissingApiKey(chain[1])
               THEN ProbeReturns(NoApiKeyHealth(chain[1]))
               ELSE ProbeCall
            /\ UNCHANGED localCall
    /\ UNCHANGED <<providers, primaryProviderId, chain, fbPc, idx,
                   attemptedProviders, errors, outcome>>
    /\ UNCHANGED <<storeVars, batchVars>>
    /\ UNCHANGED uiVars

\* the models endpoint answers: clearTimeout, response.ok decides
LocalResponds(status) ==
    /\ probePc = "local"
    /\ localCall.pc = "fetch"
    /\ localCall' = [pc |-> "done", timer |-> FALSE, net |-> "done",
                     ok |-> ResponseOk(status)]
    /\ IF ~ResponseOk(status)
       THEN ProbeReturns(NotRunningHealth(chain[1]))
       ELSE IF MissingApiKey(chain[1])
            THEN ProbeReturns(NoApiKeyHealth(chain[1]))
            ELSE ProbeCall
    /\ UNCHANGED <<providers, primaryProviderId, chain, fbPc, idx,
                   attemptedProviders, errors, outcome>>
    /\ UNCHANGED <<storeVars, batchVars>>
    /\ UNCHANGED uiVars

\* the models fetch rejects (nothing listens): the catch returns false and
\* the timer stays armed
LocalRejects ==
    /\ probePc = "local"
    /\ localCall.pc = "fetch"
    /\ localCall' = [localCall EXCEPT !.pc = "done", !.net = "done"]
    /\ ProbeReturns(NotRunningHealth(chain[1]))
    /\ UNCHANGED <<providers, primaryProviderId, chain, fbPc, idx,
                   attemptedProviders, errors, outcome>>
    /\ UNCHANGED <<storeVars, batchVars>>
    /\ UNCHANGED uiVars

\* the timer of checkLocalProviderRunning fires: controller.abort()
LocalTimerFires ==
    /\ localCall.timer
    /\ IF localCall.pc = "fetch"
       THEN /\ localCall' = [pc |-> "done", timer |-> FALSE,
                             net |-> AbortNetwork(localCall.net), ok |-> FALSE]
            /\ ProbeReturns(NotRunningHealth(chain[1]))
       ELSE /\ localCall' = [localCall EXCEPT !.timer = FALSE]
            /\ UNCHANGED <<messages, options, request, calls, health, probePc>>
    /\ UNCHANGED <<providers, primaryProviderId, chain, fbPc, idx,
                   attemptedProviders, errors, outcome>>
    /\ UNCHANGED <<storeVars, batchVars>>
    /\ UNCHANGED uiVars

\* the test call has settled and the latency is measured
ProbeResult(latencyMs) ==
    /\ probePc = "calling"
    /\ CallSettled(calls[1])
    /\ calls[1].thrown = AbortError => latencyMs >= HEALTH_CHECK_TIMEOUT_MS
    /\ IF calls[1].pc = "rejected"
       THEN /\ probePc' = "rejected"
            /\ UNCHANGED health
       ELSE /\ probePc' = "done"
            /\ health' = ClassifyHealth(chain[1], calls[1].result, latencyMs)
    /\ UNCHANGED <<providers, primaryProviderId, chain, options, fbPc, idx,
                   attemptedProviders, errors, calls, outcome,
                   messages, request, localCall>>
    /\ UNCHANGED <<storeVars, batchVars>>
    /\ UNCHANGED uiVars

\* validateApiKey up to its first await or return
ValidateStart ==
    /\ probePc = "idle"
    /\ IF HasNoApiKey(chain[1])
       THEN /\ probePc' = "validated"
            /\ validation' = NoApiKeyValidation
            /\ UNCHANGED <<messages, options, request, calls>>
       ELSE /\ probePc' = "validating"
            /\ messages' = MessagesAfterBuild(chain[1], TEST_MESSAGES)
            /\ options' = HealthOptions
            /\ request' = BuildRequest(chain[1], TEST_MESSAGES, HealthOptions)
            /\ calls' = <<StartedCall>>
            /\ UNCHANGED validation
    /\ UNCHANGED <<providers, primaryProviderId, chain, fbPc, idx,
                   attemptedProviders, errors, outcome, localCall, health,
                   storeVars, probes, healthMap>>
    /\ UNCHANGED uiVars

\* the test call of validateApiKey has settled
ValidateResult ==
    /\ probePc = "validating"
    /\ CallSettled(calls[1])
    /\ IF calls[1].pc = "rejected"
       THEN /\ probePc' = "rejected"
            /\ UNCHANGED validation
       ELSE /\ probePc' = "validated"
            /\ validation' = ClassifyValidation(calls[1].result)
    /\ UNCHANGED <<providers, primaryProviderId, chain, options, fbPc, idx,
                   attemptedProviders, errors, calls, outcome,
                   messages, request, localCall, health,
                   storeVars, probes, healthMap>>
    /\ UNCHANGED uiVars

\* checkAllProvidersHealth: providers.map starts every probe, each running
\* up to its first await
ProbeAllStart ==
    /\ probePc = "idle"
    /\ probePc' = "all"
    /\ probes' = [i \in DOMAIN chain |-> StartedProbe(chain[i])]
    /\ calls' = [i \in DOMAIN chain |->
                    IF StartedProbe(chain[i]).pc = "calling" THEN StartedCall
                    ELSE IdleCall]
    /\ options' = HealthOptions
    /\ messages' = MessagesAfterBuild(chain[1], TEST_MESSAGES)
    /\ UNCHANGED <<providers, primaryProviderId, chain, fbPc, idx,
                   attemptedProviders, errors, outcome, request, localCall,
                   health, storeVars, validation, healthMap>>
    /\ UNCHANGED uiVars

\* the models endpoint answers probe i
BatchLocalResponds(i, status) ==
    /\ probePc = "all"
    /\ probes[i].pc = "local"
    /\ probes[i].local.pc = "fetch"
    /\ LET local == [pc |-> "done", timer |-> FALSE, net |-> "done",
                     ok |-> ResponseOk(status)]
       IN  IF ~ResponseOk(status)
           THEN /\ probes' = [probes EXCEPT ![i] =
                                ProbeOf("done", local, NotRunningHealth(chain[i]))]
                /\ UNCHANGED calls
           ELSE IF MissingApiKey(chain[i])
           THEN /\ probes' = [probes EXCEPT ![i] =
                                ProbeOf("done", local, NoApiKeyHealth(chain[i]))]
                /\ UNCHANGED calls
           ELSE /\ probes' = [probes EXCEPT ![i] = ProbeOf("calling", local, NoHealth)]
                /\ calls' = [calls EXCEPT ![i] = StartedCall]
    /\ UNCHANGED <<providers, primaryProviderId, chain, options, fbPc, idx,
                   attemptedProviders, errors, outcome, clientVars,
                   storeVars, validation, healthMap>>
    /\ UNCHANGED uiVars

\* the models fetch of probe i rejects; its timer stays armed
BatchLocalRejects(i) ==
    /\ probePc = "all"
    /\ probes[i].pc = "local"
    /\ probes[i].local.pc = "fetch"
    /\ probes' = [probes EXCEPT ![i] =
                    ProbeOf("done",
                            [probes[i].local EXCEPT !.pc = "done", !.net = "done"],
                            NotRunningHealth(chain[i]))]
    /\ UNCHANGED <<providers, primaryProviderId, chain, options, fbPc, idx,
                   attemptedProviders, errors, calls, outcome, clientVars,
                   storeVars, validation, healthMap>>
    /\ UNCHANGED uiVars

\* the reachability timer of probe i fires
BatchLocalTimerFires(i) ==
    /\ i \in DOMAIN probes
    /\ probes[i].local.timer
    /\ probes' = [probes EXCEPT ![i] =
                    IF probes[i].local.pc = "fetch"
                    THEN ProbeOf("done",
                                 [pc |-> "done", timer |-> FALSE,
                                  net |-> AbortNetwork(probes[i].local.net),
                                  ok |-> FALSE],
                                 NotRunningHealth(chain[i]))
                    ELSE [probes[i] EXCEPT !.local.timer = FALSE]]
    /\ UNCHANGED <<providers, primaryProviderId, chain, options, fbPc, idx,
                   attemptedProviders, errors, calls, outcome, clientVars,
                   storeVars, validation, healthMap>>
    /\ UNCHANGED uiVars

\* the test call of probe i has settled
BatchProbeResult(i, latencyMs) ==
    /\ probePc = "all"
    /\ probes[i].pc = "calling"
    /\ CallSettled(calls[i])
    /\ calls[i].thrown = AbortError => latencyMs >= HEALTH_CHECK_TIMEOUT_MS
    /\ probes' = [probes EXCEPT ![i] =
                    IF calls[i].pc = "rejected"
                    THEN [probes[i] EXCEPT !.pc = "rejected"]
                    ELSE ProbeOf("done", probes[i].local,
                                 ClassifyHealth(chain[i], calls[i].result, latencyMs))]
    /\ UNCHANGED <<providers, primaryProviderId, chain, options, fbPc, idx,
                   attemptedProviders, errors, calls, outcome, clientVars,
                   storeVars, validation, healthMap>>
    /\ UNCHANGED uiVars

\* Promise.all settles: it rejects once a probe rejected, and resolves once
\* every probe returned
ProbeAllSettles ==
    /\ probePc = "all"
    /\ IF \E i \in DOMAIN probes : probes[i].pc = "rejected"
       THEN /\ probePc' = "rejected"
            /\ UNCHANGED healthMap
       ELSE /\ \A i \in DOMAIN probes : probes[i].pc = "done"
            /\ probePc' = "resolved"
            /\ healthMap' = HealthMapOf(chain, probes)
    /\ UNCHANGED <<providers, primaryProviderId, chain, options, fbPc, idx,
                   attemptedProviders, errors, calls, outcome,
                   messages, request, localCall, health,
                   storeVars, validation, probes>>
    /\ UNCHANGED uiVars

\* setApiKey(providerId, apiKey)
SetApiKey(providerId, apiKey) ==
    /\ fbPc = "store"
    /\ providers' = setApiKey(providers, providerId, apiKey)
    /\ UNCHANGED <<primaryProviderId, chain, walkVars, clientVars, storeVars, batchVars>>
    /\ UNCHANGED uiVars

\* setProviderEnabled(providerId, enabled)
SetProviderEnabled(providerId, enabled) ==
    /\ fbPc = "store"
    /\ providers' = setProviderEnabled(providers, providerId, enabled)
    /\ UNCHANGED <<primaryProviderId, chain, walkVars, clientVars, storeVars, batchVars>>
    /\ UNCHANGED uiVars

\* setPrimaryProvider(providerId); NoPrimary stands for null
SetPrimaryProvider(providerId) ==
    /\ fbPc = "store"
    /\ primaryProviderId' = providerId
    /\ UNCHANGED <<providers, chain, walkVars, clientVars, storeVars, batchVars>>
    /\ UNCHANGED uiVars

\* setFallbackOrder(order)
SetFallbackOrder(order) ==
    /\ fbPc = "store"
    /\ fallbackOrder' = order
    /\ UNCHANGED <<providers, primaryProviderId, chain, walkVars, clientVars,
                   healthStatus, batchVars>>
    /\ UNCHANGED uiVars

\* updateHealthStatus(health): the map is replaced
UpdateHealthStatus(h) ==
    /\ fbPc = "store"
    /\ healthStatus' = h
    /\ UNCHANGED <<providers, primaryProviderId, chain, walkVars, clientVars,
                   fallbackOrder, batchVars>>
    /\ UNCHANGED uiVars

\* setProviderModel(providerId, model)
SetProviderModel(providerId, model) ==
    /\ fbPc = "store"
    /\ providers' = setProviderModel(providers, providerId, model)
    /\ UNCHANGED <<primaryProviderId, chain, walkVars, clientVars, storeVars, batchVars>>
    /\ UNCHANGED uiVars

\* a caller asks the store for the chain it will hand to callWithFallback
GetProviderChain ==
    /\ fbPc = "store"
    /\ chain' = getProviderChain(StoreState)
    /\ fbPc' = "ready"
    /\ UNCHANGED <<providers, primaryProviderId, options, idx, attemptedProviders,
                   errors, calls, outcome, clientVars, storeVars, batchVars>>
    /\ UNCHANGED uiVars

\* the API key field of a hosted provider's card is edited
TypeApiKey(providerId, apiKey) ==
    /\ providerOf(providers, providerId).tier # "local"
    /\ getProviderById(providerId).requiresApiKey
    /\ SetApiKey(providerId, apiKey)

\* the toggle of a provider's card is switched
ToggleEnabled(providerId, checked) ==
    /\ providerOf(providers, providerId).enabled # checked
    /\ SetProviderEnabled(providerId, checked)

\* "Set as Primary": the button is rendered for an enabled provider that is
\* not the primary
ClickSetPrimary(providerId) ==
    /\ primaryProviderId # providerId
    /\ providerOf(providers, providerId).enabled
    /\ SetPrimaryProvider(providerId)

\* handleTestConnection up to its await; the button is disabled while the
\* provider is being tested and for a hosted provider without a key
HandleTestConnection(providerId) ==
    /\ fbPc = "store"
    /\ testStates[providerId] # "testing"
    /\ LET provider == providerOf(providers, providerId) IN
       /\ provider.tier = "local" \/ provider.apiKey # ""
       /\ closures' = [closures EXCEPT ![providerId] = Closure(provider, healthStatus)]
    /\ testStates' = [testStates EXCEPT ![providerId] = "testing"]
    /\ UNCHANGED <<providers, primaryProviderId, chain, walkVars, clientVars,
                   storeVars, batchVars, captureVars, panelVars>>

\* checkProviderHealth resolved: handleTestConnection copies the map it
\* captured, sets the probed entry and hands the copy to updateHealthStatus
TestConnectionResolves(providerId, h) ==
    /\ fbPc = "store"
    /\ closures[providerId].running
    /\ h \in ProbeHealths(closures[providerId].provider)
    /\ healthStatus' = MapSet(closures[providerId].healthStatus, providerId, h)
    /\ testStates' = [testStates EXCEPT ![providerId] = TestStatusOf(h)]
    /\ closures' = [closures EXCEPT ![providerId] = NoClosure]
    /\ UNCHANGED <<providers, primaryProviderId, chain, walkVars, clientVars,
                   fallbackOrder, batchVars, captureVars, panelVars>>

\* scheduleNext(delayMs): nothing when the manager is stopped; otherwise a
\* new timer whose handle replaces timeoutId, whatever timeoutId held
scheduleNext(capturing, delayMs) ==
    IF ~capturing
    THEN UNCHANGED <<timers, timeoutId>>
    ELSE /\ timers' = [timers EXCEPT ![FreeHandle] = Timer(delayMs)]
         /\ timeoutId' = FreeHandle

\* CaptureManager.start(intervalMs); a call while running returns at once
Start(ms) ==
    /\ ~isCapturing
    /\ HasFreeHandle
    /\ isCapturing' = TRUE
    /\ intervalMs' = ms
    /\ scheduleNext(TRUE, 0)
    /\ UNCHANGED <<providers, primaryProviderId, chain, walkVars, clientVars,
                   storeVars, batchVars, settingsVars, panelVars,
                   isBusy, inFlight, lastScreenshot, sinceFinished>>

\* CaptureManager.stop(): the timer timeoutId names is cleared if it is
\* still pending
Stop ==
    /\ isCapturing' = FALSE
    /\ IF timeoutId # NullTimeout
       THEN /\ timers' = [h \in TimerHandles |->
                            IF h = timeoutId THEN NoTimer ELSE timers[h]]
            /\ timeoutId' = NullTimeout
       ELSE UNCHANGED <<timers, timeoutId>>
    /\ UNCHANGED <<providers, primaryProviderId, chain, walkVars, clientVars,
                   storeVars, batchVars, settingsVars, panelVars,
                   isBusy, intervalMs, inFlight, lastScreenshot, sinceFinished>>

\* faulty variant: a capture starts although one is in flight
CaptureGuardIgnoresBusy(busy, capturing) == ~capturing

\* capture(): if (this.isBusy || !this.isCapturing) return
CaptureGuard(busy, capturing) == busy \/ ~capturing

\* a timer of the manager fires and runs capture() up to its await; the
\* handle in timeoutId is left as it is
CaptureTimerFires(h) ==
    /\ timers[h] # NoTimer
    /\ timers[h].left = 0
    /\ timers' = [timers EXCEPT ![h] = NoTimer]
    /\ timeoutId' = IF timeoutId = h THEN FiredTimeout ELSE timeoutId
    /\ IF CaptureGuard(isBusy, isCapturing)
       THEN UNCHANGED <<isBusy, inFlight>>
       ELSE /\ isBusy' = TRUE
            /\ inFlight' = inFlight + 1
    /\ UNCHANGED <<providers, primaryProviderId, chain, walkVars, clientVars,
                   storeVars, batchVars, settingsVars, panelVars,
                   isCapturing, intervalMs, lastScreenshot, sinceFinished>>

\* faulty variant: the cooldown is not applied
CooldownPassedAlways(isAuto, time, last) == TRUE

\* the auto-analyze cooldown of analyzeCurrentScreenshot
CooldownPassed(isAuto, time, last) ==
    ~isAuto \/ time - last >= AUTO_ANALYZE_COOLDOWN_MS

\* faulty variant: the concurrency guard is left out
AnalyzeGuardNever(analyzing) == FALSE

\* analyzeCurrentScreenshot: if (isAnalyzingRef.current) return
AnalyzeGuard(analyzing) == analyzing

\* getVisionChain: the store's chain, filtered to vision-capable providers
getVisionChain(state) ==
    SelectSeq(getProviderChain(state), LAMBDA p : getProviderById(p.id).supportsVision)

NoShotError == "No screenshot to analyze"

NoProviderError == "No LLM providers configured"

NoVisionError == "No vision-capable providers configured"

\* analyzeCurrentScreenshot(shot, isAuto) up to its await, as a change of
\* isAnalyzingRef, analyses and panelError
analyzeCurrentScreenshot(shot, isAuto) ==
    IF AnalyzeGuard(isAnalyzingRef) \/ ~CooldownPassed(isAuto, now, lastAnalyzeTimeRef)
    THEN UNCHANGED <<isAnalyzingRef, analyses, panelError>>
    ELSE IF shot = NoScreenshot \/ shot.data = ""
    THEN /\ panelError' = NoShotError
         /\ UNCHANGED <<isAnalyzingRef, analyses>>
    ELSE IF getVisionChain(StoreState) = <<>>
    THEN /\ panelError' = IF getProviderChain(StoreState) = <<>>
                          THEN NoProviderError ELSE NoVisionError
         /\ UNCHANGED <<isAnalyzingRef, analyses>>
    ELSE /\ isAnalyzingRef' = TRUE
         /\ analyses' = analyses + 1
         /\ panelError' = NoError

\* onCaptureRef.current(shot): the shot is kept and, with auto-analyze on
\* and a changed screen, handed to analyzeCurrentScreenshot
onCaptureRef(shot) ==
    /\ screenshotRef' = shot
    /\ IF autoAnalyze /\ shot.changed
       THEN analyzeCurrentScreenshot(shot, TRUE)
       ELSE UNCHANGED <<isAnalyzingRef, analyses, panelError>>
    /\ UNCHANGED <<lastAnalyzeTimeRef, now, autoAnalyze>>

\* captureScreen resolves: lastScreenshot and onCapture (isCapturing is not
\* read again before them), then the finally block
CaptureResolves(changed, data) ==
    /\ inFlight > 0
    /\ inFlight' = inFlight - 1
    /\ LET shot == Screenshot(NextSeq(lastScreenshot), changed, data) IN
       /\ lastScreenshot' = shot
       /\ onCaptureRef(shot)
    /\ isBusy' = FALSE
    /\ isCapturing => HasFreeHandle
    /\ scheduleNext(isCapturing, intervalMs)
    /\ sinceFinished' = 0
    /\ UNCHANGED <<providers, primaryProviderId, chain, walkVars, clientVars,
                   storeVars, batchVars, settingsVars, isCapturing, intervalMs>>

\* faulty variant: a failed capture ends the loop
RescheduleAfterErrorNever(capturing) == FALSE

\* the finally block of capture() reschedules after a failure as well
RescheduleAfterError(capturing) == capturing

\* captureScreen rejects: onError, then the finally block
CaptureRejects ==
    /\ inFlight > 0
    /\ inFlight' = inFlight - 1
    /\ panelError' = CaptureFailed
    /\ isBusy' = FALSE
    /\ isCapturing => HasFreeHandle
    /\ scheduleNext(RescheduleAfterError(isCapturing), intervalMs)
    /\ sinceFinished' = 0
    /\ UNCHANGED <<providers, primaryProviderId, chain, walkVars, clientVars,
                   storeVars, batchVars, settingsVars, isCapturing, intervalMs,
                   lastScreenshot, screenshotRef, isAnalyzingRef,
                   lastAnalyzeTimeRef, now, autoAnalyze, analyses>>

\* time passes for the manager's timers; a timer that is due fires first
Tick ==
    /\ \A h \in PendingTimers : timers[h].left >= TickMs
    /\ timers' = [h \in TimerHandles |->
                    IF timers[h] = NoTimer THEN NoTimer
                    ELSE [timers[h] EXCEPT !.left = @ - TickMs]]
    /\ sinceFinished' = Min(sinceFinished + TickMs, LongestInterval)
    /\ PendingTimers # {} \/ sinceFinished < LongestInterval
    /\ UNCHANGED <<providers, primaryProviderId, chain, walkVars, clientVars,
                   storeVars, batchVars, settingsVars, panelVars,
                   isCapturing, isBusy, timeoutId, intervalMs, inFlight,
                   lastScreenshot>>

\* the manager hands a new screenshot to the panel's onCapture callback
CaptureDelivers(changed, data) ==
    /\ LET shot == Screenshot(NextSeq(lastScreenshot), changed, data) IN
       /\ lastScreenshot' = shot
       /\ onCaptureRef(shot)
    /\ UNCHANGED <<providers, primaryProviderId, chain, walkVars, clientVars,
                   storeVars, batchVars, settingsVars,
                   isCapturing, isBusy, timeoutId, timers, intervalMs, inFlight,
                   sinceFinished>>

\* "Analyze Now": rendered enabled with a screenshot and a vision provider;
\* its isAnalyzing state may lag behind isAnalyzingRef and is not relied on
AnalyzeNow ==
    /\ screenshotRef # NoScreenshot
    /\ getVisionChain(StoreState) # <<>>
    /\ analyzeCurrentScreenshot(screenshotRef, FALSE)
    /\ UNCHANGED <<providers, primaryProviderId, chain, walkVars, clientVars,
                   storeVars, batchVars, settingsVars, captureVars,
                   screenshotRef, lastAnalyzeTimeRef, now, autoAnalyze>>

\* the auto-analyze checkbox, enabled with a vision provider
SetAutoAnalyze(checked) ==
    /\ getVisionChain(StoreState) # <<>>
    /\ autoAnalyze # checked
    /\ autoAnalyze' = checked
    /\ UNCHANGED <<providers, primaryProviderId, chain, walkVars, clientVars,
                   storeVars, batchVars, settingsVars, captureVars,
                   screenshotRef, panelError, isAnalyzingRef,
                   lastAnalyzeTimeRef, now, analyses>>

AnalysisOutcomes == {"success", "failure", "rate_limit", "exception"}

\* what setError is called with when an analysis ends
AnalysisError(out, previous) ==
    IF out = "success" THEN previous
    ELSE IF out = "rate_limit" THEN "Rate limit hit"
    ELSE IF out = "failure" THEN "All providers failed"
    ELSE "Failed to fetch"

\* the fallback call of an analysis returned or threw: the result is shown,
\* then the finally block clears the flag and notes the time
AnalysisEnds(out) ==
    /\ analyses > 0
    /\ analyses' = analyses - 1
    /\ panelError' = AnalysisError(out, panelError)
    /\ isAnalyzingRef' = FALSE
    /\ lastAnalyzeTimeRef' = now
    /\ UNCHANGED <<providers, primaryProviderId, chain, walkVars, clientVars,
                   storeVars, batchVars, settingsVars, captureVars,
                   screenshotRef, now, autoAnalyze>>

\* Date.now() moves on
ClockAdvances ==
    /\ now < MountTime + MaxClockSteps * ClockStepMs
    /\ now' = now + ClockStepMs
    /\ UNCHANGED <<providers, primaryProviderId, chain, walkVars, clientVars,
                   storeVars, batchVars, settingsVars, captureVars,
                   screenshotRef, panelError, isAnalyzingRef,
                   lastAnalyzeTimeRef, autoAnalyze, analyses>>

(***************************************************************************)
(* Specifications                                                          *)
(***************************************************************************)
NoValidation == [pending |-> TRUE]

NoHealthMap == [pending |-> TRUE]

\* the Settings panel, the CaptureManager and the screen test panel as they
\* are constructed
InitUi ==
    /\ testStates = [id \in ModelledIds |-> "idle"]
    /\ closures = [id \in ModelledIds |-> NoClosure]
    /\ isCapturing = FALSE
    /\ isBusy = FALSE
    /\ timeoutId = NullTimeout
    /\ timers = [h \in TimerHandles |-> NoTimer]
    /\ intervalMs = DEFAULT_INTERVAL_MS
    /\ inFlight = 0
    /\ lastScreenshot = NoScreenshot
    /\ sinceFinished = LongestInterval
    /\ screenshotRef = NoScreenshot
    /\ panelError = NoError
    /\ isAnalyzingRef = FALSE
    /\ lastAnalyzeTimeRef = 0
    /\ now = MountTime
    /\ autoAnalyze = FALSE
    /\ analyses = 0

InitBatch ==
    /\ validation = NoValidation
    /\ probes = <<>>
    /\ healthMap = NoHealthMap
    /\ InitUi

InitWalk ==
    /\ chain = <<>>
    /\ options = NoOptions
    /\ fbPc = "config"
    /\ idx = 1
    /\ attemptedProviders = <<>>
    /\ errors = <<>>
    /\ calls = <<>>
    /\ outcome = NoOutcome
    /\ messages = <<>>
    /\ request = NoRequest
    /\ probePc = "off"
    /\ localCall = IdleLocal
    /\ health = NoHealth
    /\ fallbackOrder = DEFAULT_FALLBACK_ORDER
    /\ healthStatus = NoHealthEntries
    /\ InitBatch

\* the store's list (catalog order) and primary preference
Init ==
    /\ providers \in StoreLists
    /\ primaryProviderId \in ModelledIds \cup {NoPrimary}
    /\ InitWalk

Network ==
    \E i \in DOMAIN calls :
        \/ \E status \in WalkStatuses : FetchResponds(i, status)
        \/ \E thrown \in FetchRejections : FetchRejects(i, thrown)
        \/ \E body \in WalkOkBodies \cup WalkErrorBodies : ReadBody(i, body)

Timers == \E i \in DOMAIN calls : TimerFires(i)

Walk ==
    \/ FallbackSkip
    \/ FallbackAttempt
    \/ FallbackResult
    \/ FallbackExhausted

Next ==
    \/ BuildChain
    \/ DirectChain
    \/ \E opts \in WalkOptions : FallbackCall(opts)
    \/ Walk
    \/ Network
    \/ Timers

Spec == Init /\ [][Next]_vars

\* chain construction alone, over instance lists in every order
InitChain ==
    /\ providers \in InstanceLists
    /\ primaryProviderId \in ModelledIds \cup {NoPrimary}
    /\ InitWalk

NextChain == BuildChain

SpecChain == InitChain /\ [][NextChain]_vars

\* the network failures are left to the environment; the timers fire and the
\* walk's own steps run whenever they can
FairSpec ==
    /\ Spec
    /\ WF_vars(\E opts \in WalkOptions : FallbackCall(opts))
    /\ WF_vars(Walk)
    /\ WF_vars(Timers)

\* one instance, for which callProvider is called directly or a probe is run
InitClient ==
    /\ chain \in {<<p>> : p \in LLMProviders}
    /\ providers = chain
    /\ primaryProviderId = NoPrimary
    /\ options = NoOptions
    /\ fbPc = "client"
    /\ idx = 1
    /\ attemptedProviders = <<>>
    /\ errors = <<>>
    /\ calls = <<IdleCall>>
    /\ outcome = NoOutcome
    /\ messages = <<>>
    /\ request = NoRequest
    /\ probePc = "idle"
    /\ localCall = IdleLocal
    /\ health = NoHealth
    /\ fallbackOrder = DEFAULT_FALLBACK_ORDER
    /\ healthStatus = NoHealthEntries
    /\ InitBatch

\* the options direct callers pass, and those of the specification's example
InvokeOptions == CallerOptions \cup {[maxTokens |-> 50, temperature |-> 0]}

ClientNetwork ==
    \/ \E status \in Statuses : FetchResponds(1, status)
    \/ \E thrown \in FetchRejections : FetchRejects(1, thrown)
    \/ \E body \in OkBodies \cup ErrorBodies : ReadBody(1, body)

LocalNetwork ==
    \/ \E status \in Statuses : LocalResponds(status)
    \/ LocalRejects

NextClient ==
    \/ \E msgs \in MessageLists : ComposeMessages(msgs)
    \/ \E opts \in InvokeOptions : Invoke(opts)
    \/ ValidateStart
    \/ ValidateResult
    \/ ProbeStart
    \/ \E latencyMs \in Latencies : ProbeResult(latencyMs)
    \/ ClientNetwork
    \/ LocalNetwork
    \/ Timers
    \/ LocalTimerFires

SpecClient == InitClient /\ [][NextClient]_vars

\* the timers fire and the prober's own steps run whenever they can; what
\* the network does is left to the environment
FairClient ==
    /\ SpecClient
    /\ WF_vars(Timers)
    /\ WF_vars(LocalTimerFires)
    /\ WF_vars(\E latencyMs \in Latencies : ProbeResult(latencyMs))
    /\ WF_vars(ValidateResult)

\* the store as created: initializeProviders, no primary, the default order
InitStore ==
    /\ providers = initializeProviders
    /\ primaryProviderId = NoPrimary
    /\ fallbackOrder = DEFAULT_FALLBACK_ORDER
    /\ healthStatus = NoHealthEntries
    /\ chain = <<>>
    /\ options = NoOptions
    /\ fbPc = "store"
    /\ idx = 1
    /\ attemptedProviders = <<>>
    /\ errors = <<>>
    /\ calls = <<>>
    /\ outcome = NoOutcome
    /\ messages = <<>>
    /\ request = NoRequest
    /\ probePc = "off"
    /\ localCall = IdleLocal
    /\ health = NoHealth
    /\ InitBatch

NextStore ==
    \/ \E id \in ModelledIds, apiKey \in ApiKeys : SetApiKey(id, apiKey)
    \/ \E id \in ModelledIds, enabled \in BOOLEAN : SetProviderEnabled(id, enabled)
    \/ \E id \in ModelledIds \cup {NoPrimary} : SetPrimaryProvider(id)
    \/ \E order \in FallbackOrders : SetFallbackOrder(order)
    \/ \E h \in HealthMaps : UpdateHealthStatus(h)
    \/ \E id \in ModelledIds :
          \E model \in ModelChoices(id) : SetProviderModel(id, model)
    \/ GetProviderChain

SpecStore == InitStore /\ [][NextStore]_vars

\* one checkAllProvidersHealth call over a list of instances
InitProbeAll ==
    /\ chain \in ProbeAllLists
    /\ providers = chain
    /\ primaryProviderId = NoPrimary
    /\ options = NoOptions
    /\ fbPc = "client"
    /\ idx = 1
    /\ attemptedProviders = <<>>
    /\ errors = <<>>
    /\ calls = [i \in DOMAIN chain |-> IdleCall]
    /\ outcome = NoOutcome
    /\ messages = <<>>
    /\ request = NoRequest
    /\ probePc = "idle"
    /\ localCall = IdleLocal
    /\ health = NoHealth
    /\ fallbackOrder = DEFAULT_FALLBACK_ORDER
    /\ healthStatus = NoHealthEntries
    /\ InitBatch

BatchNetwork ==
    \E i \in DOMAIN calls :
        \/ \E status \in BatchStatuses : FetchResponds(i, status)
        \/ FetchRejects(i, FetchTypeError)
        \/ \E body \in BatchBodies : ReadBody(i, body)
        \/ \E status \in BatchStatuses : BatchLocalResponds(i, status)
        \/ BatchLocalRejects(i)

BatchTimers ==
    \E i \in DOMAIN calls :
        \/ TimerFires(i)
        \/ BatchLocalTimerFires(i)

NextProbeAll ==
    \/ ProbeAllStart
    \/ BatchNetwork
    \/ BatchTimers
    \/ \E i \in DOMAIN calls, latencyMs \in BatchLatencies : BatchProbeResult(i, latencyMs)
    \/ ProbeAllSettles

SpecProbeAll == InitProbeAll /\ [][NextProbeAll]_vars

\* the Settings panel over a fresh store
InitSettings == InitStore

\* every result checkProviderHealth has for some instance of the catalog
AllProbeHealths ==
    UNION {ProbeHealths(LLMProvider(id, apiKey, ConfigHeaders(id))) :
              id \in ModelledIds, apiKey \in ApiKeys}

NextSettings ==
    \/ \E id \in ModelledIds, apiKey \in ApiKeys : TypeApiKey(id, apiKey)
    \/ \E id \in ModelledIds, checked \in BOOLEAN : ToggleEnabled(id, checked)
    \/ \E id \in ModelledIds : ClickSetPrimary(id)

SpecSettings == InitSettings /\ [][NextSettings]_vars

\* the store after a key was entered for every hosted provider
RECURSIVE WithKeys(_, _)
WithKeys(list, k) ==
    IF k = 0 THEN list
    ELSE WithKeys(setApiKey(list, list[k].id, "sk-test"), k - 1)

\* connection tests from the Settings panel, every provider being testable
InitTests ==
    /\ providers = WithKeys(initializeProviders, Len(initializeProviders))
    /\ primaryProviderId = NoPrimary
    /\ fallbackOrder = DEFAULT_FALLBACK_ORDER
    /\ healthStatus = NoHealthEntries
    /\ chain = <<>>
    /\ options = NoOptions
    /\ fbPc = "store"
    /\ idx = 1
    /\ attemptedProviders = <<>>
    /\ errors = <<>>
    /\ calls = <<>>
    /\ outcome = NoOutcome
    /\ messages = <<>>
    /\ request = NoRequest
    /\ probePc = "off"
    /\ localCall = IdleLocal
    /\ health = NoHealth
    /\ InitBatch

\* the providers whose Test Connection button is used
TestedIds ==
    {PROVIDER_CONFIGS[ModelledOrder[k]].id :
        k \in 1..Min(NumProbes, Cardinality(ModelledIds))}

NextTests ==
    \/ \E id \in TestedIds : HandleTestConnection(id)
    \/ \E id \in TestedIds, h \in AllProbeHealths : TestConnectionResolves(id, h)

SpecTests == InitTests /\ [][NextTests]_vars

\* the CaptureManager under start(), stop(), its timers and its captures
InitCapture == InitStore

CaptureSettles ==
    \/ \E changed \in BOOLEAN : CaptureResolves(changed, "iVBOR")
    \/ CaptureRejects

NextCapture ==
    \/ \E ms \in CaptureIntervals : Start(ms)
    \/ Stop
    \/ \E h \in TimerHandles : CaptureTimerFires(h)
    \/ CaptureSettles
    \/ Tick

SpecCapture == InitCapture /\ [][NextCapture]_vars

\* timers fire, time passes and every captureScreen call settles; start()
\* and stop() are the caller's
FairCapture ==
    /\ SpecCapture
    /\ WF_vars(\E h \in TimerHandles : CaptureTimerFires(h))
    /\ WF_vars(CaptureSettles)
    /\ WF_vars(Tick)

\* the screen test panel over a store with a key for every hosted provider
InitPanel == InitTests

NextPanel ==
    \/ \E changed \in BOOLEAN, data \in ScreenshotData : CaptureDelivers(changed, data)
    \/ AnalyzeNow
    \/ \E checked \in BOOLEAN : SetAutoAnalyze(checked)
    \/ \E out \in AnalysisOutcomes : AnalysisEnds(out)
    \/ ClockAdvances

SpecPanel == InitPanel /\ [][NextPanel]_vars

(***************************************************************************)
(* Properties                                                              *)
(***************************************************************************)
Done == fbPc = "done"

Last(seq) == seq[Len(seq)]

\* t occurs in s
Contains(s, t) ==
    \E k \in 1..(Len(s) - Len(t) + 1) : SubSeq(s, k, k + Len(t) - 1) = t

Returned(i) == calls[i].pc = "returned"

Succeeded(i) == Returned(i) /\ calls[i].result.success

Failed(i) == Returned(i) /\ ~calls[i].result.success

\* a provider invocation is in flight: callProvider has not settled, or its
\* network operation is still running
InFlight(i) == calls[i].pc \in {"fetch", "body"} \/ calls[i].net = "inflight"

\* C1: once an invocation of the chain succeeds, the walk stays at that
\* instance and the fallback call returns that success: the outcome is a
\* success, attemptedProviders ends with the succeeding identifier and the
\* result's providerId is the same identifier.
C1_SuccessIsReturned ==
    \A i \in DOMAIN calls :
        Succeeded(i) =>
            /\ fbPc \in {"walking", "done"}
            /\ idx = i
            /\ Last(attemptedProviders) = chain[i].id
            /\ Done =>
                /\ outcome.result.success
                /\ outcome.result.providerId = chain[i].id
                /\ Last(outcome.attemptedProviders) = chain[i].id

\* C1 witness: a success returned after an earlier instance failed
C1_Witness ==
    /\ Done
    /\ outcome.result.success
    /\ Len(outcome.attemptedProviders) >= 2
    /\ outcome.result.providerId = Last(outcome.attemptedProviders)

\* C2: every returned FallbackOutcome has no more errors than attempts, and
\* as many errors as attempts exactly when its result is a failure.
C2_ErrorsVersusAttempts ==
    Done =>
        /\ Len(outcome.errors) <= Len(outcome.attemptedProviders)
        /\ (Len(outcome.errors) = Len(outcome.attemptedProviders))
              <=> ~outcome.result.success

\* C2 witness: a success after one failure, over a chain holding a disabled
\* instance: one error, two attempts
C2_Witness ==
    /\ Done
    /\ outcome.result.success
    /\ Len(outcome.errors) = 1
    /\ Len(outcome.attemptedProviders) = 2
    /\ \E i \in DOMAIN chain : ~chain[i].enabled

\* every instance of the chain is enabled, was invoked and failed retriably
AllEnabledFailedRetriably ==
    /\ Len(chain) >= 1
    /\ \A i \in DOMAIN chain :
        /\ chain[i].enabled
        /\ Failed(i)
        /\ isRetriable(calls[i].result.error)

\* C3: for a chain of N enabled instances that all fail with retriable
\* errors, attemptedProviders and errors have length N and the result is the
\* Nth provider's failure.
C3_ResultIsLastFailure ==
    (Done /\ AllEnabledFailedRetriably) =>
        /\ Len(outcome.attemptedProviders) = Len(chain)
        /\ Len(outcome.errors) = Len(chain)
        /\ outcome.result = calls[Len(chain)].result

\* every instance of the chain was skipped or failed
AllSkippedOrFailed ==
    \A i \in DOMAIN chain : ~chain[i].enabled \/ Failed(i)

AllSkippedOrFailedRetriably ==
    \A i \in DOMAIN chain :
        ~chain[i].enabled \/ (Failed(i) /\ isRetriable(calls[i].result.error))

\* the returned failure is the synthesized one: its identifier is no real
\* provider's, and its message names every attempted provider with its message
SynthesizedReturned ==
    /\ ~outcome.result.success
    /\ outcome.result.error.providerId \notin CatalogIds
    /\ \A i \in DOMAIN chain : outcome.result.error.providerId # chain[i].id
    /\ Len(outcome.errors) = Len(outcome.attemptedProviders)
    /\ \A k \in DOMAIN outcome.errors :
        /\ outcome.errors[k].providerId = outcome.attemptedProviders[k]
        /\ Contains(outcome.result.error.message, outcome.errors[k].providerId)
        /\ Contains(outcome.result.error.message, outcome.errors[k].message)

C5_DisabledNeverAttempted ==
    /\ \A i \in DOMAIN calls : ~chain[i].enabled => calls[i] = IdleCall
    /\ \A k \in DOMAIN attemptedProviders :
        \A i \in DOMAIN providers :
            providers[i].id = attemptedProviders[k] => providers[i].enabled
    /\ Done =>
        \A k \in DOMAIN outcome.attemptedProviders :
            \A i \in DOMAIN chain :
                chain[i].id = outcome.attemptedProviders[k] => chain[i].enabled

\* C5 witness: a walk finished over a chain that held a disabled instance
\* ahead of an attempted one
C5_Witness ==
    /\ Done
    /\ Len(outcome.attemptedProviders) >= 1
    /\ \E i, j \in DOMAIN chain :
        /\ i < j
        /\ ~chain[i].enabled
        /\ chain[j].id = Last(outcome.attemptedProviders)

\* C6: at most one provider invocation is in flight at any time, and an
\* instance is invoked only after every earlier invocation has completed.
C6_OneInFlight ==
    /\ Cardinality({i \in DOMAIN calls : InFlight(i)}) <= 1
    /\ \A i, j \in DOMAIN calls :
        (i < j /\ calls[j].pc # "idle") =>
            (calls[i].pc \in {"idle", "returned"} /\ ~InFlight(i))

\* C6 witness: the second invocation is running after the first timed out
C6_Witness ==
    \E i, j \in DOMAIN calls :
        /\ i < j
        /\ Returned(i)
        /\ calls[i].thrown = AbortError
        /\ calls[j].pc = "fetch"

C8_Terminates == (fbPc = "walking") ~> (fbPc = "done")

\* position of the instance with identifier id in list
PosIn(list, id) == CHOOSE i \in DOMAIN list : list[i].id = id

\* C9: the constructed chain holds exactly the enabled instances, each once;
\* with the primary present and enabled it comes first and the others keep
\* their relative order; otherwise the chain is the enabled instances in
\* their existing order.
C9_ChainConstruction ==
    fbPc = "ready" =>
        /\ \A k \in DOMAIN chain :
            \E i \in DOMAIN providers : providers[i] = chain[k] /\ providers[i].enabled
        /\ \A i \in DOMAIN providers :
            providers[i].enabled <=>
                \E k \in DOMAIN chain : chain[k].id = providers[i].id
        /\ DistinctIds(chain)
        /\ IF primaryProviderId # NoPrimary /\ HasEnabled(providers, primaryProviderId)
           THEN /\ chain[1].id = primaryProviderId
                /\ \A a, b \in 2..Len(chain) :
                    a < b => PosIn(providers, chain[a].id) < PosIn(providers, chain[b].id)
           ELSE \A a, b \in DOMAIN chain :
                    a < b => PosIn(providers, chain[a].id) < PosIn(providers, chain[b].id)

\* C9 witness: the primary is the third of three enabled instances
C9_Witness ==
    /\ fbPc = "ready"
    /\ Len(providers) = 3
    /\ \A i \in DOMAIN providers : providers[i].enabled
    /\ providers[3].id = primaryProviderId
    /\ chain = <<providers[3], providers[1], providers[2]>>

\* C10: callProvider never rejects; every result is tagged with the invoked
\* instance's identifier, and a thrown value or a non-2xx status always gives
\* a failure carrying a ProviderError of the taxonomy.
C10_InvokeAlwaysResolves ==
    \A i \in DOMAIN calls :
        /\ calls[i].pc # "rejected"
        /\ fbPc # "rejected"
        /\ Returned(i) =>
            /\ calls[i].result.success =>
                calls[i].result.providerId = chain[i].id
            /\ ~calls[i].result.success =>
                /\ calls[i].result.error.providerId = chain[i].id
                /\ calls[i].result.error.code \in ErrorCodes
            /\ (calls[i].thrown # NothingThrown
                    \/ (calls[i].status # 0 /\ ~ResponseOk(calls[i].status))) =>
                ~calls[i].result.success

\* C10 witness: a 2xx body that does not parse, returned as a failure
C10_Witness ==
    \E i \in DOMAIN calls :
        /\ Returned(i)
        /\ calls[i].thrown = JsonSyntaxError
        /\ calls[i].result.error.code = "network_error"

\* the kind a non-2xx status stands for
StatusKind(status) ==
    IF status = 401 \/ status = 403 THEN "auth_error"
    ELSE IF status = 429 THEN "rate_limit"
    ELSE IF status >= 500 THEN "network_error"
    ELSE "invalid_response"

NonOkResponse(i) ==
    Returned(i) /\ calls[i].status # 0 /\ ~ResponseOk(calls[i].status)

\* C11: for every non-2xx response, whatever its body, callProvider returns a
\* failure whose kind is the one its status code stands for.
C11_StatusDeterminesKind ==
    \A i \in DOMAIN calls :
        NonOkResponse(i) =>
            /\ ~calls[i].result.success
            /\ calls[i].result.error.code = StatusKind(calls[i].status)

\* C12: a 429 whose JSON body carries a retry_after hint n is a rate_limit
\* with retryAfterMs = 1000 * n for every hint value; without the field
\* retryAfterMs is 60000.
C12_RetryAfterHint ==
    \A i \in DOMAIN calls :
        (NonOkResponse(i) /\ calls[i].status = 429 /\ calls[i].body.json) =>
            /\ calls[i].result.error.code = "rate_limit"
            /\ calls[i].result.error.retryAfterMs =
                  IF HasField(calls[i].body, "retry_after")
                  THEN 1000 * calls[i].body.retry_after
                  ELSE 60000

TimedOut(i) == Returned(i) /\ calls[i].thrown = AbortError

\* C13: when the deadline expires before the provider responds, the result is
\* a network_error failure whose message names the timeout: the caller's
\* timeoutMs when given, 30000 otherwise.
C13_TimeoutFailure ==
    \A i \in DOMAIN calls :
        TimedOut(i) =>
            /\ ~calls[i].result.success
            /\ calls[i].result.error.code = "network_error"
            /\ Contains(calls[i].result.error.message,
                        IF "timeoutMs" \in DOMAIN options
                        THEN ToString(options.timeoutMs)
                        ELSE "30000")

\* C13 witness: a call made with timeoutMs 60000 has timed out
C13_Witness ==
    /\ probePc = "invoking"
    /\ TimedOut(1)
    /\ options = VisionOptions
    /\ calls[1].result.error.message = "Request timed out after 60000ms"

InvokePending == calls # <<>> /\ calls[1].pc \in {"fetch", "body"}

InvokeSettled == calls # <<>> /\ CallSettled(calls[1])

\* C14: an invocation that is pending is ended by its deadline: it never
\* stays pending for good, also not while the body is being read.
C14_DeadlineBoundsInvocation == InvokePending ~> InvokeSettled

\* C15: a header key set on the instance and, with another value, on its
\* definition carries the instance's value in the built header map.
C15_InstanceHeadersWin ==
    request # NoRequest =>
        \A k \in DOMAIN chain[1].customHeaders \cap DOMAIN ConfigHeaders(chain[1].id) :
            chain[1].customHeaders[k] # ConfigHeaders(chain[1].id)[k] =>
                request.headers[k] = chain[1].customHeaders[k]

AnthropicRequest == request # NoRequest /\ isAnthropicProvider(chain[1])

\* C16: the divergent family's body has the first system message's text as
\* system (absent without a system message), exactly the non-system messages
\* in their order as messages, and the chosen limit as max_tokens.
C16_AnthropicRequestBody ==
    AnthropicRequest =>
        LET body == request.body
            turns == SelectSeq(messages, NonSystem)
        IN  /\ ("system" \in DOMAIN body) <=> (\E k \in DOMAIN messages : IsSystem(messages[k]))
            /\ \A k \in DOMAIN messages :
                  (IsSystem(messages[k]) /\ \A j \in 1..(k - 1) : ~IsSystem(messages[j])) =>
                      body.system = getTextContent(messages[k].content)
            /\ Len(body.messages) = Len(turns)
            /\ \A k \in DOMAIN turns :
                  /\ body.messages[k].role = turns[k].role
                  /\ body.messages[k].content = toAnthropicContent(turns[k].content)
            /\ body.max_tokens =
                  IF "maxTokens" \in DOMAIN options THEN options.maxTokens
                  ELSE chain[1].maxTokens

\* C16 witness: [system S, user U] with maxTokens 50
C16_Witness ==
    /\ AnthropicRequest
    /\ messages = << Message("system", StringContent("S")),
                     Message("user", StringContent("U")) >>
    /\ "maxTokens" \in DOMAIN options
    /\ options.maxTokens = 50
    /\ request.body.system = "S"
    /\ request.body.messages = << [role |-> "user", content |-> StringContent("U")] >>
    /\ request.body.max_tokens = 50

AnthropicSuccess(i) == Succeeded(i) /\ isAnthropicProvider(chain[i])

\* C17: a normalized divergent-family response has one choice with index 0,
\* role assistant, the first text-typed block's text as content (the empty
\* string without such a block), the stop reason as finish_reason, and the
\* token counts with their sum as usage.
C17_NormalizedAnthropic ==
    \A i \in DOMAIN calls :
        AnthropicSuccess(i) =>
            LET r == calls[i].result.response
                data == calls[i].body
                content == r.choices[1].message.content
            IN  /\ Len(r.choices) = 1
                /\ r.choices[1].index = 0
                /\ r.choices[1].message.role = "assistant"
                /\ \A k \in DOMAIN data.content :
                      (/\ data.content[k].type = "text"
                       /\ \A j \in 1..(k - 1) : data.content[j].type # "text") =>
                          content = data.content[k].text
                /\ (\A k \in DOMAIN data.content : data.content[k].type # "text") =>
                      content = ""
                /\ r.choices[1].finish_reason = data.stop_reason
                /\ r.usage.prompt_tokens = data.usage.input_tokens
                /\ r.usage.completion_tokens = data.usage.output_tokens
                /\ r.usage.total_tokens =
                      data.usage.input_tokens + data.usage.output_tokens

\* C17 witness: a response without a text-typed block, normalized to ""
C17_Witness ==
    /\ AnthropicSuccess(1)
    /\ calls[1].body = AnthropicToolUseBody
    /\ calls[1].result.response.choices[1].message.content = ""
    /\ calls[1].result.response.usage.total_tokens = 7

\* C18: the assistant text of every success result can be read
\* (getResponseText returns a string and does not throw).
C18_SuccessTextReadable ==
    \A i \in DOMAIN calls :
        Succeeded(i) => ~getResponseText(calls[i].result.response).threw

ProbeDone == probePc = "done"

NeedsCredential == getProviderById(chain[1].id).requiresApiKey /\ chain[1].apiKey = ""

\* C19: a finished probe of an instance that requires a credential and has
\* none reports unknown with an error text, and no fetch was issued.
C19_NoCredentialNoRequest ==
    (ProbeDone /\ NeedsCredential) =>
        /\ health.status = "unknown"
        /\ "error" \in DOMAIN health
        /\ health.error # ""
        /\ calls[1].pc = "idle"
        /\ calls[1].net = "none"
        /\ localCall.net = "none"
        /\ request = NoRequest

\* C19 witness: the probe of a hosted instance without a key has returned
C19_Witness ==
    /\ ProbeDone
    /\ NeedsCredential
    /\ chain[1].tier = "free"
    /\ health = NoApiKeyHealth(chain[1])

ProbeCalled == ProbeDone /\ calls[1].pc = "returned"

\* C20: a probe that made the test call reports degraded for a success slower
\* than 5000 ms, healthy for a faster one, degraded for a rate_limit failure
\* and unhealthy with the failure's message for any other failure.
C20_ProbeClassification ==
    ProbeCalled =>
        LET result == calls[1].result IN
        /\ (result.success /\ health.latencyMs > 5000) => health.status = "degraded"
        /\ (result.success /\ health.latencyMs < 5000) => health.status = "healthy"
        /\ (~result.success /\ result.error.code = "rate_limit") =>
              health.status = "degraded"
        /\ (~result.success /\ result.error.code # "rate_limit") =>
              /\ health.status = "unhealthy"
              /\ health.error = result.error.message

\* C20 witness: a successful test call that took 5001 ms
C20_Witness ==
    /\ ProbeCalled
    /\ calls[1].result.success
    /\ health.latencyMs = 5001
    /\ health.status = "degraded"

ChainReturned == fbPc = "ready"

TierRank(tier) == IF tier = "paid" THEN 1 ELSE IF tier = "free" THEN 2 ELSE 3

\* C23: in the chain the store returns, behind a primary put first, every
\* paid provider precedes every free one and every free one every local one.
C23_PaidFreeLocal ==
    ChainReturned =>
        \A i, j \in DOMAIN chain :
            (i < j /\ chain[i].id # primaryProviderId) =>
                TierRank(chain[i].tier) <= TierRank(chain[j].tier)

IdsOf(list) == {list[k].id : k \in DOMAIN list}

\* C25: after any sequence of store actions the store holds exactly one
\* instance per catalog identifier, and the chain it returns has no
\* identifier twice.
C25_OneInstancePerId ==
    /\ IdsOf(providers) = ModelledIds
    /\ Len(providers) = Cardinality(ModelledIds)
    /\ DistinctIds(providers)
    /\ ChainReturned => DistinctIds(chain)

\* C25 witness: a chain led by the primary, returned after keys, a model, the
\* order and the health map were set
C25_Witness ==
    /\ ChainReturned
    /\ Len(chain) = Len(providers)
    /\ primaryProviderId # NoPrimary
    /\ chain[1].id = primaryProviderId
    /\ chain[1].id # providers[1].id
    /\ \E k \in DOMAIN providers : providers[k].model = "custom-model"
    /\ fallbackOrder # DEFAULT_FALLBACK_ORDER
    /\ healthStatus # NoHealthEntries

\* C30: a store action that leaves providers, primaryProviderId and
\* fallbackOrder alone leaves the chain getProviderChain computes alone, and
\* a returned chain holds every enabled instance whatever its health.
C30_HealthOutOfBand ==
    [][/\ (/\ providers' = providers
           /\ primaryProviderId' = primaryProviderId
           /\ fallbackOrder' = fallbackOrder) =>
              getProviderChain([providers |-> providers',
                                primaryProviderId |-> primaryProviderId',
                                fallbackOrder |-> fallbackOrder',
                                healthStatus |-> healthStatus'])
                  = getProviderChain(StoreState)
       /\ ChainReturned' =>
              \A k \in DOMAIN providers' :
                  providers'[k].enabled => providers'[k].id \in IdsOf(chain')]_vars

\* C30 witness: every instance was last probed unhealthy and the returned
\* chain still holds the enabled ones
C30_Witness ==
    /\ ChainReturned
    /\ healthStatus = HealthMapOfStatus("unhealthy")
    /\ Len(chain) >= 2
    /\ \A i \in DOMAIN chain : healthStatus[chain[i].id].status = "unhealthy"

Validated == probePc = "validated"

\* C22: validateApiKey on an instance with an empty credential returns
\* invalid and no fetch is issued.
C22_EmptyCredentialInvalid ==
    (Validated /\ chain[1].apiKey = "") =>
        /\ ~validation.valid
        /\ calls[1].pc = "idle"
        /\ calls[1].net = "none"
        /\ localCall.net = "none"
        /\ request = NoRequest

\* C22 witness: the validation of a hosted instance without a key returned
C22_Witness ==
    /\ Validated
    /\ chain[1].apiKey = ""
    /\ chain[1].tier = "paid"
    /\ validation = NoApiKeyValidation

InProbe == probePc \in {"local", "calling", "done"}

LocalCheckFailed == localCall.pc = "done" /\ ~localCall.ok

\* C26: the probe of a local instance first checks reachability under an
\* armed timer; when the check fails or times out the probe is unhealthy and
\* no chat invocation was issued; a chat invocation is issued only after the
\* check succeeded.
C26_LocalCheckFirst ==
    (InProbe /\ chain[1].tier = "local") =>
        /\ localCall.pc # "idle"
        /\ localCall.pc = "fetch" => (localCall.timer /\ calls[1].pc = "idle")
        /\ calls[1].pc # "idle" => (localCall.pc = "done" /\ localCall.ok)
        /\ LocalCheckFailed =>
              /\ probePc = "done"
              /\ health.status = "unhealthy"
              /\ calls[1].pc = "idle"
              /\ request = NoRequest

\* C26 witness: the reachability check timed out and the probe returned
C26_Witness ==
    /\ InProbe
    /\ chain[1].tier = "local"
    /\ LocalCheckFailed
    /\ localCall.net = "aborted"
    /\ health = NotRunningHealth(chain[1])

ValidatedByCall == Validated /\ chain[1].apiKey # ""

C28_RetryAfterOnlyForRateLimit ==
    \A i \in DOMAIN calls :
        Failed(i) =>
            ("retryAfterMs" \in DOMAIN calls[i].result.error
                <=> calls[i].result.error.code = "rate_limit")

\* C28 witness: a 429 without a hint, returned with the default
C28_Witness ==
    /\ Failed(1)
    /\ calls[1].body = EmptyObjectBody
    /\ calls[1].result.error.code = "rate_limit"
    /\ calls[1].result.error.retryAfterMs = 60000

InWalk == fbPc \in {"walking", "done"}

Invoked(i) == calls[i].pc # "idle"

\* C24: attemptedProviders is, in chain order and without repetition, a
\* prefix of the chain's enabled instances; every enabled instance is invoked
\* at most once, and only after every earlier enabled instance has failed.
C24_AttemptsArePrefix ==
    InWalk =>
        LET enabled == SelectSeq(chain, IsEnabled) IN
        /\ Len(attemptedProviders) <= Len(enabled)
        /\ \A k \in DOMAIN attemptedProviders : attemptedProviders[k] = enabled[k].id
        /\ \A j, k \in DOMAIN attemptedProviders :
              j # k => attemptedProviders[j] # attemptedProviders[k]
        /\ Cardinality({i \in DOMAIN calls : Invoked(i)}) = Len(attemptedProviders)
        /\ \A i \in DOMAIN calls :
              Invoked(i) =>
                  /\ chain[i].enabled
                  /\ \A j \in 1..(i - 1) : chain[j].enabled => Failed(j)

\* C24 witness: a walk over three instances, the second disabled; the first
\* was rate limited (with a retryAfterMs) and the third was invoked next
C24_Witness ==
    /\ Done
    /\ Len(chain) = 3
    /\ ~chain[2].enabled
    /\ attemptedProviders = <<chain[1].id, chain[3].id>>
    /\ Len(errors) >= 1
    /\ errors[1].code = "rate_limit"
    /\ errors[1].retryAfterMs = 2000
    /\ calls[2].pc = "idle"

\* what probe i reports, as its own reachability check and test call fix it
OwnHealth(i) ==
    IF NeedsLocalCheck(chain[i]) /\ ~probes[i].local.ok
    THEN probes[i].health = NotRunningHealth(chain[i])
    ELSE IF MissingApiKey(chain[i])
    THEN probes[i].health = NoApiKeyHealth(chain[i])
    ELSE /\ CallSettled(calls[i])
         /\ \E latencyMs \in BatchLatencies :
               probes[i].health = ClassifyHealth(chain[i], calls[i].result, latencyMs)

PrimarySet == primaryProviderId # NoPrimary

\* C31: whenever primaryProviderId is set, the provider it names is enabled
\* and is the first element of the chain getProviderChain returns.
C31_PrimaryEnabledAndFirst ==
    PrimarySet =>
        /\ HasEnabled(providers, primaryProviderId)
        /\ Len(getProviderChain(StoreState)) >= 1
        /\ getProviderChain(StoreState)[1].id = primaryProviderId

Tested(id) == testStates[id] \in {"success", "error"}

\* C32: once the connection tests that were started have finished, the
\* store's healthStatus holds the probe result of every tested provider.
C32_NoProbeResultLost ==
    (\A id \in ModelledIds : testStates[id] # "testing") =>
        \A id \in ModelledIds :
            Tested(id) =>
                /\ id \in DOMAIN healthStatus
                /\ TestStatusOf(healthStatus[id]) = testStates[id]

\* C33: at most one captureScreen call is in flight at any time.
C33_NoOverlappingCaptures ==
    /\ inFlight <= 1
    /\ isBusy <=> inFlight = 1

\* C33 witness: the manager was stopped and started again while a capture
\* was in flight, and a timer is about to fire during that capture
C33_Witness ==
    /\ isCapturing
    /\ inFlight = 1
    /\ \E h \in PendingTimers : timers[h].left = 0

\* C34: while the manager stays stopped, lastScreenshot does not change and
\* onCapture is not invoked (the panel's screenshotRef keeps its value).
C34_QuietAfterStop ==
    [][(~isCapturing /\ ~isCapturing') =>
           /\ lastScreenshot' = lastScreenshot
           /\ screenshotRef' = screenshotRef]_vars

\* C35: while the manager is running at most one of its timers is pending,
\* and a capture begun by a timer other than the immediate one of start()
\* begins no sooner than intervalMs after the previous capture finished.
C35_OneTimerAndSpacing ==
    [][/\ isCapturing' => Cardinality({h \in TimerHandles : timers'[h] # NoTimer}) <= 1
       /\ \A h \in TimerHandles :
             (/\ inFlight' = inFlight + 1
              /\ timers[h] # NoTimer
              /\ timers'[h] = NoTimer
              /\ timers[h].delay # 0) => sinceFinished >= intervalMs]_vars

\* C36: a running manager always has a timer pending or a capture in
\* flight, and when it stays running captures keep being begun.
C36_CapturesContinue ==
    /\ [](isCapturing => (PendingTimers # {} \/ inFlight > 0))
    /\ (<>[]isCapturing) => []<><<inFlight' = inFlight + 1>>_vars

\* C36 witness: a capture failed, onError was told, and the next capture is
\* scheduled a full interval ahead
C36_Witness ==
    /\ isCapturing
    /\ panelError = CaptureFailed
    /\ inFlight = 0
    /\ \E h \in PendingTimers : timers[h] = Timer(intervalMs)

\* C37: at most one analysis is in flight at any time, and the in-flight
\* flag is set exactly while one is.
C37_NoOverlappingAnalyses ==
    /\ analyses <= 1
    /\ isAnalyzingRef <=> analyses = 1

\* C37 witness: an earlier analysis ended and cleared the flag; another one
\* is in flight while auto-analyze is on and a changed screenshot has arrived
C37_Witness ==
    /\ analyses = 1
    /\ isAnalyzingRef
    /\ lastAnalyzeTimeRef > 0
    /\ autoAnalyze
    /\ screenshotRef.changed

\* C38: an analysis started by a capture starts no sooner than
\* AUTO_ANALYZE_COOLDOWN_MS after the previous analysis ended, and every
\* analysis that ends notes the time it ended at.
C38_AutoCooldown ==
    [][/\ (analyses' = analyses + 1 /\ screenshotRef' # screenshotRef) =>
              now - lastAnalyzeTimeRef >= AUTO_ANALYZE_COOLDOWN_MS
       /\ analyses' = analyses - 1 => lastAnalyzeTimeRef' = now]_vars

\* C38 witness: with auto-analyze on, a changed screenshot arrived 10000 ms
\* after an analysis ended and no analysis was started
C38_Witness ==
    /\ autoAnalyze
    /\ screenshotRef.changed
    /\ screenshotRef.data # ""
    /\ lastScreenshot = screenshotRef
    /\ analyses = 0
    /\ lastAnalyzeTimeRef > 0
    /\ now - lastAnalyzeTimeRef = 10000

====
